---- MODULE Spec2Model ----
(***************************************************************************)
(* Model of the key-value server's LRU cache (include/lru_cache.h).       *)
(*                                                                         *)
(* The cache is a std::list of (key, value) nodes ordered MRU -> LRU and a *)
(* std::unordered_map from key to list iterator.  A list iterator is a     *)
(* stable reference to a node, so nodes carry identities here: the list is *)
(* a sequence of node ids, the map sends a key to a node id, and `node`    *)
(* holds each live node's pair.  Every public operation runs its whole     *)
(* body under lock_guard(m_mutex), so each one is a single step.           *)
(*                                                                         *)
(* Spec is the cache as the server configures it, with a positive          *)
(* capacity; SpecZero is the cache constructed with capacity zero, where   *)
(* put reaches back() and pop_back() of an empty list.                     *)
(*                                                                         *)
(* SpecMutex is the same cache one statement at a time: concurrent workers *)
(* take m_mutex, run the statements of put, get, remove or get_state, and  *)
(* release it.                                                             *)
(***************************************************************************)
EXTENDS Integers, Sequences, FiniteSets, TLC

\* ---------------------------------------------------------------- bounds
\* Largest capacity a cache is constructed with.
MaxCap == 2

\* Keys and values the workers submit.
Keys == {"a", "b", "c"}
Values == {"1", "2"}

\* Node identities available to the allocator (one more than any capacity).
Nodes == 1 .. (MaxCap + 1)

\* Threads of the HTTP server's pool that call into the cache concurrently.
CWorkers == {"t1", "t2"}

\* Threads of the HTTP server's pool that construct PooledConnection handles.
PWorkers == {"w1", "w2", "w3"}

\* Number of sessions the pool is constructed with (pool_size).
PoolSize == 2

\* The PGconn objects PQconnectdb returns, numbered in the order of the loop.
Sessions == 1 .. PoolSize

\* A handle's m_conn before getConnection returns, and the no-session result.
nullptr == 0

\* m_cache_map.end(): the iterator find() returns for an absent key.
end == 0

\* std::nullopt, the result of get() on a miss.
nullopt == "nullopt"

\* The httplib worker threads that run the request handlers.
HWorkers == {"w1", "w2"}

\* The keys the requests name.
HKeys == {"a", "b"}

\* The requests the clients send in a run.
MaxReq == 3

\* A key with no row in kv_pairs.
absent == "absent"

VARIABLES
    m_max_size,     \* LRUCache::m_max_size
    m_lru_list,     \* LRUCache::m_lru_list, node ids from MRU to LRU
    m_cache_map,    \* LRUCache::m_cache_map, key -> node id
    node,           \* contents of the live list nodes: id -> [first, second]
    call,           \* the last completed call: [op, key, value, ret]
    state,          \* the CacheState value last returned by get_state
    touched,        \* history: resident keys by last touch, oldest first
    latest,         \* history: key -> value of its last put, while not removed or evicted
    before,         \* history: the entries and indexed keys when the last call began
    fault,          \* "none", or how an operation with undefined behaviour ended
    cache_mutex,    \* LRUCache::m_mutex: "free", or the worker that holds it
    cpc,            \* statement each cache worker is at, inside a cache operation
    cop,            \* the operation each cache worker is running: [op, key, value]
    csnap,          \* the CacheState each worker's get_state is filling in
    at_lock,        \* history: the cache as each worker found it when it took the mutex
    m_pool,         \* DBConnectionPool::m_pool: queue of idle sessions, front first
    pool_mutex,     \* DBConnectionPool::m_mutex: "free", or the worker that holds it
    m_cond,         \* DBConnectionPool::m_cond: the workers blocked in wait / wait_for
    ppc,            \* statement each pool worker is at
    conn,           \* per worker: the session in its hands (local conn, then m_conn)
    m_valid,        \* per worker: PooledConnection::m_valid of its handle
    status,         \* per session: PQstatus, "OK" or "BAD"
    established,    \* history: the sessions PQconnectdb established at construction
    lost,           \* history: sessions whose handle was invalidated and destroyed
    path,           \* history: how the holder of each worker's last handle left its scope
    connected,      \* history: what the last is_connected() returned
    server,         \* where main is: "boot", "listening" in svr.listen, or "exited"
    kv_pairs,       \* the backend table kv_pairs: key -> value, or absent
    hpc,            \* statement each request worker is at, inside a handler
    req,            \* the request each worker is serving: [op, key, value]
    res,            \* the response each worker has set: [status, body]
    db_val,         \* per worker: /read's local db_val
    committed,      \* history: the pairs the backend has ever held
    fresh_del,      \* history: keys whose successful /delete completed, no /create since
    fresh_val,      \* history: key -> value of a completed /create, no write or delete since
    after_del,      \* history: per worker, its /read began while fresh_del held its key
    after_put,      \* history: per worker, fresh_val of its key when its /read began
    overwritten,    \* history: per worker, the value a later /create committed over its own
    crossed,        \* history: key -> <<cached, committed>> once two /creates crossed
    raced,          \* history: per worker, another write of its key overlapped its own
    served,         \* history: how many requests the workers have taken up
    seen,           \* history: per worker, the values cache or backend held for its key
    alone,          \* history: per worker, no other request on its key while it ran
    late,           \* history: per worker, its key was in diverged when it began
    diverged        \* history: keys whose cached value has differed from the backend's

\* The statement-level view of the cache: mutex, workers and their locals.
mvars == <<cache_mutex, cpc, cop, csnap, at_lock>>

\* The connection pool, its workers and their handles.
pvars == <<m_pool, pool_mutex, m_cond, ppc, conn, m_valid, status,
           established, lost, path, connected>>

\* The cache and what is observed of its calls.
lvars == <<m_max_size, m_lru_list, m_cache_map, node, call, state, touched, latest, before, fault>>

\* The server: main, the backend table, the request workers and their history.
\* What an observer of the requests notes of them.
wvars == <<seen, alone, late, diverged>>

svars == <<server, kv_pairs, hpc, req, res, db_val, committed,
           fresh_del, fresh_val, after_del, after_put, overwritten, crossed, raced, served,
           wvars>>

vars == <<lvars, mvars, pvars, svars>>

\* ------------------------------------------------------- list primitives
\* A faulty promotion that relinks the node at the LRU end.
splice_to_back(list, n) == SelectSeq(list, LAMBDA x : x # n) \o <<n>>

\* A faulty promotion that leaves the node where it is.
splice_nowhere(list, n) == list

\* std::list::splice(begin(), list, it): relink node n at the front.
splice(list, n) == <<n>> \o SelectSeq(list, LAMBDA x : x # n)

\* A faulty insertion at the LRU end.
push_back(list, n) == Append(list, n)

\* std::list::push_front
push_front(list, n) == <<n>> \o list

\* std::list::pop_back, on a non-empty list
pop_back(list) == SubSeq(list, 1, Len(list) - 1)

\* std::list::back, on a non-empty list
back(list) == list[Len(list)]

\* A faulty erase that leaves the node linked.
list_erase_nothing(list, n) == list

\* std::list::erase(it)
list_erase(list, n) == SelectSeq(list, LAMBDA x : x # n)

\* std::unordered_map::find
find(map, key) == IF key \in DOMAIN map THEN map[key] ELSE end

\* A faulty erase that leaves the index entry in place.
map_erase_forgotten(map, key) == map

\* std::unordered_map::erase(key)
map_erase(map, key) == [k \in (DOMAIN map) \ {key} |-> map[k]]

\* std::unordered_map::operator[]=
map_assign(map, key, n) == [k \in (DOMAIN map) \cup {key} |-> IF k = key THEN n ELSE map[k]]

\* The allocator: a node id not live in `heap`.
new_node(heap) == CHOOSE n \in Nodes \ DOMAIN heap : \A m \in Nodes \ DOMAIN heap : n <= m

\* Destroying a node releases its storage.
free_node(heap, n) == [m \in (DOMAIN heap) \ {n} |-> heap[m]]

\* Constructing a node with the pair {key, value}.
make_node(heap, n, key, value) ==
    [m \in (DOMAIN heap) \cup {n} |-> IF m = n THEN [first |-> key, second |-> value] ELSE heap[m]]

\* ------------------------------------------------------------- observers
\* The (key, value) pairs of a list, MRU first: what copying the list yields.
Items(list, heap) == [i \in 1 .. Len(list) |-> <<heap[list[i]].first, heap[list[i]].second>>]

\* The keys of a list, MRU first.
ListKeys(list, heap) == [i \in 1 .. Len(list) |-> heap[list[i]].first]

Range(s) == {s[i] : i \in DOMAIN s}

\* History of touches: key is now the most recently touched resident key,
\* and only the keys resident after the operation are remembered.
Touch(order, key, resident) ==
    SelectSeq(SelectSeq(order, LAMBDA k : k # key) \o <<key>>, LAMBDA k : k \in resident)

Forget(order, resident) == SelectSeq(order, LAMBDA k : k \in resident)

\* History of writes: put(key, value) is now the last put of key; a key that
\* is not resident after the operation was removed or evicted by it.
Written(hist, key, value, resident) ==
    [k \in ((DOMAIN hist) \cup {key}) \cap resident |-> IF k = key THEN value ELSE hist[k]]

Dropped(hist, resident) == [k \in (DOMAIN hist) \cap resident |-> hist[k]]

\* The cache as a caller could read it when a call begins.
Before == [items |-> Items(m_lru_list, node), index |-> DOMAIN m_cache_map]

\* A default-constructed CacheState, before get_state fills it in.
CacheState == [current_size |-> 0, max_size |-> 0, items |-> <<>>]

\* No worker is inside a cache operation and m_mutex is free.
CacheUnlocked ==
    /\ cache_mutex = "free"
    /\ cpc = [w \in CWorkers |-> "idle"]
    /\ cop = [w \in CWorkers |-> [op |-> "-", key |-> "-", value |-> "-"]]
    /\ csnap = [w \in CWorkers |-> CacheState]
    /\ at_lock = [w \in CWorkers |-> [items |-> <<>>, index |-> {}]]

\* The sessions of S as the constructor's loop pushes them: ascending.
InOrder(S) ==
    CHOOSE q \in [1 .. Cardinality(S) -> S] :
        \A i, j \in 1 .. Cardinality(S) : i < j => q[i] < q[j]

\* DBConnectionPool::DBConnectionPool, where PQconnectdb succeeded for the
\* sessions of est and failed for the others; no worker has a handle yet.
DBConnectionPool(est) ==
    /\ established = est
    /\ m_pool = InOrder(est)
    /\ pool_mutex = "free"
    /\ m_cond = {}
    /\ ppc = [w \in PWorkers |-> "idle"]
    /\ conn = [w \in PWorkers |-> nullptr]
    /\ m_valid = [w \in PWorkers |-> FALSE]
    /\ status = [x \in Sessions |-> IF x \in est THEN "OK" ELSE "BAD"]
    /\ lost = {}
    /\ path = [w \in PWorkers |-> "-"]
    /\ connected = "-"

\* The process before main has checked the pool: no handler is registered,
\* no request is being served, and kv_pairs holds the rows of table.
NotServing(table) ==
    /\ server = "boot"
    /\ kv_pairs = table
    /\ hpc = [w \in HWorkers |-> "idle"]
    /\ req = [w \in HWorkers |-> [op |-> "-", key |-> "-", value |-> "-"]]
    /\ res = [w \in HWorkers |-> [status |-> 0, body |-> "-"]]
    /\ db_val = [w \in HWorkers |-> nullopt]
    /\ committed = {<<k, table[k]>> : k \in {j \in HKeys : table[j] # absent}}
    /\ fresh_del = {}
    /\ fresh_val = [k \in HKeys |-> nullopt]
    /\ after_del = [w \in HWorkers |-> FALSE]
    /\ after_put = [w \in HWorkers |-> nullopt]
    /\ overwritten = [w \in HWorkers |-> nullopt]
    /\ crossed = [k \in HKeys |-> nullopt]
    /\ raced = [w \in HWorkers |-> FALSE]
    /\ served = 0
    /\ seen = [w \in HWorkers |-> {}]
    /\ alone = [w \in HWorkers |-> TRUE]
    /\ late = [w \in HWorkers |-> FALSE]
    /\ diverged = {}

\* kv_pairs with no row.
EmptyTable == [k \in HKeys |-> absent]

\* LRUCache::LRUCache: nothing stored, nothing observed yet.
EmptyCache ==
    /\ m_lru_list = <<>>
    /\ m_cache_map = <<>>
    /\ node = <<>>
    /\ call = [op |-> "new", key |-> "-", value |-> "-", ret |-> "-"]
    /\ state = <<>>
    /\ touched = <<>>
    /\ latest = <<>>
    /\ before = [items |-> <<>>, index |-> {}]
    /\ fault = "none"
    /\ CacheUnlocked

\* ------------------------------------------------------------------ Init
Init ==
    /\ m_max_size \in 1 .. MaxCap
    /\ EmptyCache
    /\ NotServing(EmptyTable)
    /\ DBConnectionPool(Sessions)

\* ------------------------------------------------------------ operations
\* A faulty put of a resident key that promotes it and keeps the old value.
put_hit_keeps_value(key, value, it) ==
    /\ m_lru_list' = <<it>> \o SelectSeq(m_lru_list, LAMBDA x : x # it)
    /\ node' = node
    /\ m_cache_map' = m_cache_map
    /\ call' = [op |-> "put", key |-> key, value |-> value, ret |-> "-"]
    /\ fault' = fault

\* put, key resident (lines 25-29): promote and replace the value.
put_hit(key, value, it) ==
    /\ m_lru_list' = splice(m_lru_list, it)
    /\ node' = [node EXCEPT ![it].second = value]
    /\ m_cache_map' = m_cache_map
    /\ call' = [op |-> "put", key |-> key, value |-> value, ret |-> "-"]
    /\ fault' = fault

\* A faulty put that never evicts.
evict_never(list, map, heap) == [list |-> list, map |-> map, heap |-> heap]

\* A faulty put that evicts the MRU head instead of the LRU tail.
evict_mru(list, map, heap) ==
    IF Cardinality(DOMAIN map) >= m_max_size
    THEN [list |-> Tail(list),
          map |-> [k \in (DOMAIN map) \ {heap[Head(list)].first} |-> map[k]],
          heap |-> [m \in (DOMAIN heap) \ {Head(list)} |-> heap[m]]]
    ELSE [list |-> list, map |-> map, heap |-> heap]

\* Lines 31-35: when the map holds m_max_size entries or more, drop the tail
\* of the list and its index entry.  Yields the list, map and nodes left.
evict(list, map, heap) ==
    IF Cardinality(DOMAIN map) >= m_max_size
    THEN [list |-> pop_back(list),
          map |-> map_erase(map, heap[back(list)].first),
          heap |-> free_node(heap, back(list))]
    ELSE [list |-> list, map |-> map, heap |-> heap]

\* Lines 37-38: a new node {key, value} at the front, and its index entry.
install(c, key, value) ==
    LET n == new_node(c.heap)
    IN  /\ node' = make_node(c.heap, n, key, value)
        /\ m_lru_list' = push_front(c.list, n)
        /\ m_cache_map' = map_assign(c.map, key, n)

\* put, key absent, and the eviction test of line 31 true on an empty list
\* (only possible when m_max_size = 0): back() and pop_back() of an empty
\* std::list have undefined behaviour.  The outcomes a build produces: the
\* process dies; the copy of the garbage key throws and put is left with
\* nothing stored; or the two calls do no visible harm and lines 37-38 run.
put_undefined(key, value) ==
    \/ /\ fault' = "crashed"
       /\ call' = [op |-> "put", key |-> key, value |-> value, ret |-> "-"]
       /\ UNCHANGED <<m_lru_list, m_cache_map, node>>
    \/ /\ fault' = fault
       /\ call' = [op |-> "put", key |-> key, value |-> value, ret |-> "threw"]
       /\ UNCHANGED <<m_lru_list, m_cache_map, node>>
    \/ /\ fault' = fault
       /\ call' = [op |-> "put", key |-> key, value |-> value, ret |-> "-"]
       /\ install([list |-> m_lru_list, map |-> m_cache_map, heap |-> node], key, value)

\* put, key absent (lines 31-38): evict when full, then install at the front.
put_miss(key, value) ==
    IF Cardinality(DOMAIN m_cache_map) >= m_max_size /\ m_lru_list = <<>>
    THEN put_undefined(key, value)
    ELSE /\ install(evict(m_lru_list, m_cache_map, node), key, value)
         /\ call' = [op |-> "put", key |-> key, value |-> value, ret |-> "-"]
         /\ fault' = fault

\* LRUCache::put
put(key, value) ==
    /\ fault = "none"
    /\ LET it == find(m_cache_map, key)
       IN  IF it # end THEN put_hit(key, value, it) ELSE put_miss(key, value)
    /\ m_max_size' = m_max_size
    /\ touched' = Touch(touched, key, DOMAIN m_cache_map')
    /\ latest' = IF call'.ret = "threw" \/ fault' # "none"
                 THEN latest
                 ELSE Written(latest, key, value, DOMAIN m_cache_map')
    /\ before' = Before
    /\ state' = state

\* LRUCache::get
get(key) ==
    /\ fault = "none"
    /\ LET it == find(m_cache_map, key)
       IN  IF it = end
           THEN /\ call' = [op |-> "get", key |-> key, value |-> "-", ret |-> nullopt]
                /\ m_lru_list' = m_lru_list
                /\ touched' = touched
           ELSE /\ m_lru_list' = splice(m_lru_list, it)
                /\ call' = [op |-> "get", key |-> key, value |-> "-", ret |-> node[it].second]
                /\ touched' = Touch(touched, key, DOMAIN m_cache_map)
    /\ before' = Before
    /\ UNCHANGED <<m_max_size, m_cache_map, node, state, latest, fault>>

\* LRUCache::remove
remove(key) ==
    /\ fault = "none"
    /\ LET it == find(m_cache_map, key)
       IN  IF it # end
           THEN /\ m_lru_list' = list_erase(m_lru_list, it)
                /\ node' = free_node(node, it)
                /\ m_cache_map' = map_erase(m_cache_map, key)
           ELSE UNCHANGED <<m_lru_list, node, m_cache_map>>
    /\ call' = [op |-> "remove", key |-> key, value |-> "-", ret |-> "-"]
    /\ touched' = Forget(touched, DOMAIN m_cache_map')
    /\ latest' = Dropped(latest, (DOMAIN latest) \ {key})
    /\ before' = Before
    /\ UNCHANGED <<m_max_size, state, fault>>

\* A faulty snapshot that lists the entries from LRU to MRU.
get_state_lru_first ==
    /\ fault = "none"
    /\ state' = << [current_size |-> Cardinality(DOMAIN m_cache_map),
                    max_size |-> m_max_size,
                    items |-> [i \in 1 .. Len(m_lru_list) |->
                                 Items(m_lru_list, node)[Len(m_lru_list) + 1 - i]]] >>
    /\ call' = [op |-> "get_state", key |-> "-", value |-> "-", ret |-> "-"]
    /\ before' = Before
    /\ UNCHANGED <<m_max_size, m_lru_list, m_cache_map, node, touched, latest, fault>>

\* LRUCache::get_state
get_state ==
    /\ fault = "none"
    /\ state' = << [current_size |-> Cardinality(DOMAIN m_cache_map),
                    max_size |-> m_max_size,
                    items |-> Items(m_lru_list, node)] >>
    /\ call' = [op |-> "get_state", key |-> "-", value |-> "-", ret |-> "-"]
    /\ before' = Before
    /\ UNCHANGED <<m_max_size, m_lru_list, m_cache_map, node, touched, latest, fault>>

Next ==
    \/ \E key \in Keys, value \in Values : put(key, value) /\ UNCHANGED <<mvars, pvars, svars>>
    \/ \E key \in Keys : get(key) /\ UNCHANGED <<mvars, pvars, svars>>
    \/ \E key \in Keys : remove(key) /\ UNCHANGED <<mvars, pvars, svars>>
    \/ get_state /\ UNCHANGED <<mvars, pvars, svars>>

Spec == Init /\ [][Next]_vars

\* The cache constructed with capacity zero, LRUCache(0).
InitZero ==
    /\ m_max_size = 0
    /\ EmptyCache
    /\ NotServing(EmptyTable)
    /\ DBConnectionPool(Sessions)

SpecZero == InitZero /\ [][Next]_vars

\* ------------------------------------------- the cache, one statement a step
\* History and whole-call variables and the pool, which the statement-level
\* steps of the cache leave alone.
hvars == <<call, state, touched, latest, before, fault, pvars, svars>>

Goto(w, label) == cpc' = [cpc EXCEPT ![w] = label]

\* A worker enters one of the four operations.
c_call(w) ==
    /\ cpc[w] = "idle"
    /\ \E op \in {"put", "get", "remove", "get_state"}, key \in Keys, value \in Values :
          cop' = [cop EXCEPT ![w] =
                    [op |-> op,
                     key |-> IF op = "get_state" THEN "-" ELSE key,
                     value |-> IF op = "put" THEN value ELSE "-"]]
    /\ Goto(w, "lock")
    /\ UNCHANGED <<m_max_size, m_lru_list, m_cache_map, node, cache_mutex, csnap, at_lock, hvars>>

\* std::lock_guard<std::mutex> lock(m_mutex): blocks until the mutex is free.
lock_guard(w) ==
    /\ cache_mutex = "free"
    /\ cache_mutex' = w
    /\ at_lock' = [at_lock EXCEPT ![w] = Before]

\* put: line 22, then the find and the tests of lines 24-25 and 31.
put_lock(w) ==
    /\ cpc[w] = "lock" /\ cop[w].op = "put"
    /\ lock_guard(w)
    /\ Goto(w, IF find(m_cache_map, cop[w].key) # end THEN "put_splice"
                ELSE IF Cardinality(DOMAIN m_cache_map) >= m_max_size THEN "put_erase"
                ELSE "put_push")
    /\ UNCHANGED <<m_max_size, m_lru_list, m_cache_map, node, cop, csnap, hvars>>

\* put, line 26
put_splice(w) ==
    /\ cpc[w] = "put_splice"
    /\ m_lru_list' = splice(m_lru_list, m_cache_map[cop[w].key])
    /\ Goto(w, "put_assign")
    /\ UNCHANGED <<m_max_size, m_cache_map, node, cache_mutex, cop, csnap, at_lock, hvars>>

\* put, lines 27-28
put_assign(w) ==
    /\ cpc[w] = "put_assign"
    /\ node' = [node EXCEPT ![m_cache_map[cop[w].key]].second = cop[w].value]
    /\ Goto(w, "unlock")
    /\ UNCHANGED <<m_max_size, m_lru_list, m_cache_map, cache_mutex, cop, csnap, at_lock, hvars>>

\* put, lines 32-33
put_erase(w) ==
    /\ cpc[w] = "put_erase"
    /\ m_cache_map' = map_erase(m_cache_map, node[back(m_lru_list)].first)
    /\ Goto(w, "put_pop")
    /\ UNCHANGED <<m_max_size, m_lru_list, node, cache_mutex, cop, csnap, at_lock, hvars>>

\* put, line 34
put_pop(w) ==
    /\ cpc[w] = "put_pop"
    /\ m_lru_list' = pop_back(m_lru_list)
    /\ node' = free_node(node, back(m_lru_list))
    /\ Goto(w, "put_push")
    /\ UNCHANGED <<m_max_size, m_cache_map, cache_mutex, cop, csnap, at_lock, hvars>>

\* put, line 37
put_push(w) ==
    /\ cpc[w] = "put_push"
    /\ LET n == new_node(node)
       IN  /\ node' = make_node(node, n, cop[w].key, cop[w].value)
           /\ m_lru_list' = push_front(m_lru_list, n)
    /\ Goto(w, "put_index")
    /\ UNCHANGED <<m_max_size, m_cache_map, cache_mutex, cop, csnap, at_lock, hvars>>

\* put, line 38
put_index(w) ==
    /\ cpc[w] = "put_index"
    /\ m_cache_map' = map_assign(m_cache_map, cop[w].key, m_lru_list[1])
    /\ Goto(w, "unlock")
    /\ UNCHANGED <<m_max_size, m_lru_list, node, cache_mutex, cop, csnap, at_lock, hvars>>

\* get: line 42, then the find and the test of lines 44-45.
get_lock(w) ==
    /\ cpc[w] = "lock" /\ cop[w].op = "get"
    /\ lock_guard(w)
    /\ Goto(w, IF find(m_cache_map, cop[w].key) = end THEN "unlock" ELSE "get_splice")
    /\ UNCHANGED <<m_max_size, m_lru_list, m_cache_map, node, cop, csnap, hvars>>

\* get, lines 49-51
get_splice(w) ==
    /\ cpc[w] = "get_splice"
    /\ m_lru_list' = splice(m_lru_list, m_cache_map[cop[w].key])
    /\ Goto(w, "unlock")
    /\ UNCHANGED <<m_max_size, m_cache_map, node, cache_mutex, cop, csnap, at_lock, hvars>>

\* remove: line 55, then the find and the test of lines 57-58.
remove_lock(w) ==
    /\ cpc[w] = "lock" /\ cop[w].op = "remove"
    /\ lock_guard(w)
    /\ Goto(w, IF find(m_cache_map, cop[w].key) # end THEN "remove_list" ELSE "unlock")
    /\ UNCHANGED <<m_max_size, m_lru_list, m_cache_map, node, cop, csnap, hvars>>

\* remove, line 59
remove_list(w) ==
    /\ cpc[w] = "remove_list"
    /\ m_lru_list' = list_erase(m_lru_list, m_cache_map[cop[w].key])
    /\ node' = free_node(node, m_cache_map[cop[w].key])
    /\ Goto(w, "remove_map")
    /\ UNCHANGED <<m_max_size, m_cache_map, cache_mutex, cop, csnap, at_lock, hvars>>

\* remove, line 60
remove_map(w) ==
    /\ cpc[w] = "remove_map"
    /\ m_cache_map' = map_erase(m_cache_map, cop[w].key)
    /\ Goto(w, "unlock")
    /\ UNCHANGED <<m_max_size, m_lru_list, node, cache_mutex, cop, csnap, at_lock, hvars>>

\* A faulty get_state that reads the cache without taking m_mutex.
get_state_unlocked(w) ==
    /\ cpc[w] = "lock" /\ cop[w].op = "get_state"
    /\ at_lock' = [at_lock EXCEPT ![w] = Before]
    /\ Goto(w, "get_state_size")
    /\ UNCHANGED <<m_max_size, m_lru_list, m_cache_map, node, cache_mutex, cop, csnap, hvars>>

\* get_state: line 65
get_state_lock(w) ==
    /\ cpc[w] = "lock" /\ cop[w].op = "get_state"
    /\ lock_guard(w)
    /\ Goto(w, "get_state_size")
    /\ UNCHANGED <<m_max_size, m_lru_list, m_cache_map, node, cop, csnap, hvars>>

\* get_state, lines 66-68
get_state_size(w) ==
    /\ cpc[w] = "get_state_size"
    /\ csnap' = [csnap EXCEPT ![w] = [current_size |-> Cardinality(DOMAIN m_cache_map),
                                      max_size |-> m_max_size,
                                      items |-> CacheState.items]]
    /\ Goto(w, "get_state_items")
    /\ UNCHANGED <<m_max_size, m_lru_list, m_cache_map, node, cache_mutex, cop, at_lock, hvars>>

\* get_state, line 69
get_state_items(w) ==
    /\ cpc[w] = "get_state_items"
    /\ csnap' = [csnap EXCEPT ![w].items = Items(m_lru_list, node)]
    /\ Goto(w, "unlock")
    /\ UNCHANGED <<m_max_size, m_lru_list, m_cache_map, node, cache_mutex, cop, at_lock, hvars>>

\* The return of any of the four: the lock_guard goes out of scope and
\* releases the mutex it took; the caller receives the result.
c_unlock(w) ==
    /\ cpc[w] = "unlock"
    /\ cache_mutex' = IF cache_mutex = w THEN "free" ELSE cache_mutex
    /\ Goto(w, "idle")
    /\ csnap' = [csnap EXCEPT ![w] = CacheState]
    /\ at_lock' = [at_lock EXCEPT ![w] = [items |-> <<>>, index |-> {}]]
    /\ cop' = [cop EXCEPT ![w] = [op |-> "-", key |-> "-", value |-> "-"]]
    /\ UNCHANGED <<m_max_size, m_lru_list, m_cache_map, node, hvars>>

NextMutex ==
    \E w \in CWorkers :
        \/ c_call(w)
        \/ put_lock(w) \/ put_splice(w) \/ put_assign(w)
        \/ put_erase(w) \/ put_pop(w) \/ put_push(w) \/ put_index(w)
        \/ get_lock(w) \/ get_splice(w)
        \/ remove_lock(w) \/ remove_list(w) \/ remove_map(w)
        \/ get_state_lock(w) \/ get_state_size(w) \/ get_state_items(w)
        \/ c_unlock(w)

SpecMutex == Init /\ [][NextMutex]_vars

\* ------------------------------------------------------ the connection pool
\* The cache, which the pool's steps leave alone.
cachevars == <<lvars, mvars, svars>>

PGoto(w, label) == ppc' = [ppc EXCEPT ![w] = label]

\* The sessions in the hands of a worker: popped by its getConnection, or
\* the m_conn of its live handle.
Held(w) == IF ppc[w] # "idle" /\ conn[w] # nullptr THEN {conn[w]} ELSE {}

\* The workers that hold session x.
Holders(x) == {w \in PWorkers : x \in Held(w)}

\* The positions of session x in the idle queue.
Idle(x) == {i \in DOMAIN m_pool : m_pool[i] = x}

\* std::unique_lock / std::lock_guard on the pool's m_mutex.
unique_lock(w) ==
    /\ pool_mutex = "free"
    /\ pool_mutex' = w

\* Where a worker resumes when its wait on m_cond ends.
Woken(w) == IF ppc[w] = "tw_blocked" THEN "tw_woken" ELSE "gc_woken"

\* m_cond.notify_one() by worker w, which then continues at to: one of the
\* blocked workers, if any, is unblocked.
notify_one(w, to) ==
    IF m_cond = {}
    THEN /\ m_cond' = m_cond
         /\ PGoto(w, to)
    ELSE \E v \in m_cond :
            /\ m_cond' = m_cond \ {v}
            /\ ppc' = [ppc EXCEPT ![w] = to, ![v] = Woken(v)]

\* PooledConnection::PooledConnection: m_valid(true), then getConnection.
PooledConnection(w) ==
    /\ ppc[w] = "idle"
    /\ m_valid' = [m_valid EXCEPT ![w] = TRUE]
    /\ conn' = [conn EXCEPT ![w] = nullptr]
    /\ path' = [path EXCEPT ![w] = "-"]
    /\ PGoto(w, "gc_lock")
    /\ UNCHANGED <<m_pool, pool_mutex, m_cond, status, established, lost, connected, cachevars>>

\* getConnection, line 131
getConnection_lock(w) ==
    /\ ppc[w] = "gc_lock"
    /\ unique_lock(w)
    /\ PGoto(w, "gc_wait")
    /\ UNCHANGED <<m_pool, m_cond, conn, m_valid, status, established, lost, path,
                   connected, cachevars>>

\* m_cond.wait(lock, pred), line 132: while the predicate is false, release
\* the mutex and block; with the predicate true, go on holding the mutex.
wait(w, at, blocked, to) ==
    /\ ppc[w] = at
    /\ IF m_pool # <<>>
       THEN /\ PGoto(w, to)
            /\ UNCHANGED <<pool_mutex, m_cond>>
       ELSE /\ pool_mutex' = "free"
            /\ m_cond' = m_cond \cup {w}
            /\ PGoto(w, blocked)
    /\ UNCHANGED <<m_pool, conn, m_valid, status, established, lost, path, connected,
                   cachevars>>

getConnection_wait(w) == wait(w, "gc_wait", "gc_blocked", "gc_pop")

\* A wait on a condition variable may end without any notify.
spurious_wakeup(w) ==
    /\ w \in m_cond
    /\ m_cond' = m_cond \ {w}
    /\ PGoto(w, Woken(w))
    /\ UNCHANGED <<m_pool, pool_mutex, conn, m_valid, status, established, lost,
                   path, connected, cachevars>>

\* A faulty wait that does not test the predicate again after waking.
relock_no_recheck(w, at, to) ==
    /\ ppc[w] = at
    /\ unique_lock(w)
    /\ PGoto(w, IF at = "gc_woken" THEN "gc_pop" ELSE "tw_pop")
    /\ UNCHANGED <<m_pool, m_cond, conn, m_valid, status, established, lost, path,
                   connected, cachevars>>

\* The end of a wait: the woken worker takes the mutex again and goes back
\* to the test of the predicate.
relock(w, at, to) ==
    /\ ppc[w] = at
    /\ unique_lock(w)
    /\ PGoto(w, to)
    /\ UNCHANGED <<m_pool, m_cond, conn, m_valid, status, established, lost, path,
                   connected, cachevars>>

getConnection_relock(w) == relock(w, "gc_woken", "gc_wait")

\* A faulty pop that takes the session and leaves it in the queue.
front_without_pop(w, at, to) ==
    /\ ppc[w] = at
    /\ conn' = [conn EXCEPT ![w] = Head(m_pool)]
    /\ m_pool' = m_pool
    /\ PGoto(w, to)
    /\ UNCHANGED <<pool_mutex, m_cond, m_valid, status, established, lost, path, connected,
                   cachevars>>

\* A faulty pop that lets go of the mutex before the session is probed.
front_pop_unlocks(w, at, to) ==
    /\ ppc[w] = at
    /\ conn' = [conn EXCEPT ![w] = Head(m_pool)]
    /\ m_pool' = Tail(m_pool)
    /\ pool_mutex' = "free"
    /\ PGoto(w, to)
    /\ UNCHANGED <<m_cond, m_valid, status, established, lost, path, connected,
                   cachevars>>

\* PGconn* conn = m_pool.front(); m_pool.pop();
front_pop(w, at, to) ==
    /\ ppc[w] = at
    /\ conn' = [conn EXCEPT ![w] = Head(m_pool)]
    /\ m_pool' = Tail(m_pool)
    /\ PGoto(w, to)
    /\ UNCHANGED <<pool_mutex, m_cond, m_valid, status, established, lost, path, connected,
                   cachevars>>

\* getConnection, lines 134-135
getConnection_pop(w) == front_pop(w, "gc_pop", "gc_probe")

\* A faulty repair that puts a session whose reset failed back in the queue
\* and leaves the caller without one.
probe_reset_requeues(w, at, to) ==
    /\ ppc[w] = at
    /\ IF status[conn[w]] = "OK"
       THEN UNCHANGED <<status, m_pool, conn>>
       ELSE \E r \in {"OK", "BAD"} :
               /\ status' = [status EXCEPT ![conn[w]] = r]
               /\ IF r = "OK"
                  THEN UNCHANGED <<m_pool, conn>>
                  ELSE /\ m_pool' = Append(m_pool, conn[w])
                       /\ conn' = [conn EXCEPT ![w] = nullptr]
    /\ PGoto(w, to)
    /\ UNCHANGED <<pool_mutex, m_cond, m_valid, established, lost, path,
                   connected, cachevars>>

\* if (PQstatus(conn) != CONNECTION_OK) PQreset(conn): one reset, which may
\* or may not bring the session back; the second PQstatus only logs.
probe_reset(w, at, to) ==
    /\ ppc[w] = at
    /\ IF status[conn[w]] = "OK"
       THEN status' = status
       ELSE \E r \in {"OK", "BAD"} : status' = [status EXCEPT ![conn[w]] = r]
    /\ PGoto(w, to)
    /\ UNCHANGED <<m_pool, pool_mutex, m_cond, conn, m_valid, established, lost, path,
                   connected, cachevars>>

\* getConnection, lines 137-143
getConnection_probe(w) == probe_reset(w, "gc_probe", "gc_return")

\* return conn: the unique_lock goes out of scope, the caller has the session.
return_conn(w, at) ==
    /\ ppc[w] = at
    /\ pool_mutex' = IF pool_mutex = w THEN "free" ELSE pool_mutex
    /\ PGoto(w, "holding")
    /\ UNCHANGED <<m_pool, m_cond, conn, m_valid, status, established, lost, path,
                   connected, cachevars>>

\* getConnection, line 145; the handle's m_conn is set at line 45.
getConnection_return(w) == return_conn(w, "gc_return")

\* A caller of the timed acquire; the repository has none (the function is
\* private and unused), so the caller here keeps the result as a handle
\* keeps its m_conn.
getConnectionWithTimeout(w) ==
    /\ ppc[w] = "idle"
    /\ m_valid' = [m_valid EXCEPT ![w] = TRUE]
    /\ conn' = [conn EXCEPT ![w] = nullptr]
    /\ path' = [path EXCEPT ![w] = "-"]
    /\ PGoto(w, "tw_lock")
    /\ UNCHANGED <<m_pool, pool_mutex, m_cond, status, established, lost, connected, cachevars>>

\* getConnectionWithTimeout, line 149
timed_lock(w) ==
    /\ ppc[w] = "tw_lock"
    /\ unique_lock(w)
    /\ PGoto(w, "tw_wait")
    /\ UNCHANGED <<m_pool, m_cond, conn, m_valid, status, established, lost, path,
                   connected, cachevars>>

\* m_cond.wait_for(lock, timeout_ms, pred), line 150, before the deadline
timed_wait(w) == wait(w, "tw_wait", "tw_blocked", "tw_pop")

timed_relock(w) == relock(w, "tw_woken", "tw_wait")

\* The deadline of wait_for passes while the worker is blocked, or woken and
\* not yet holding the mutex again.
timeout(w) ==
    /\ ppc[w] \in {"tw_blocked", "tw_woken"}
    /\ m_cond' = m_cond \ {w}
    /\ PGoto(w, "tw_expired")
    /\ UNCHANGED <<m_pool, pool_mutex, conn, m_valid, status, established, lost,
                   path, connected, cachevars>>

\* wait_for takes the mutex again after the deadline
timed_expired(w) == relock(w, "tw_expired", "tw_last")

\* A faulty timed acquire that gives up at the deadline whatever the queue holds.
timed_last_gives_up(w) ==
    /\ ppc[w] = "tw_last"
    /\ pool_mutex' = IF pool_mutex = w THEN "free" ELSE pool_mutex
    /\ conn' = [conn EXCEPT ![w] = nullptr]
    /\ PGoto(w, "holding")
    /\ UNCHANGED <<m_pool, m_cond, m_valid, status, established, lost, path, connected,
                   cachevars>>

\* After the deadline wait_for returns the predicate: with the queue still
\* empty getConnectionWithTimeout returns nullptr (lines 150-153), otherwise
\* it goes on to take the front session.
timed_last(w) ==
    /\ ppc[w] = "tw_last"
    /\ IF m_pool # <<>>
       THEN /\ PGoto(w, "tw_pop")
            /\ UNCHANGED <<pool_mutex, conn>>
       ELSE /\ pool_mutex' = IF pool_mutex = w THEN "free" ELSE pool_mutex
            /\ conn' = [conn EXCEPT ![w] = nullptr]
            /\ PGoto(w, "holding")
    /\ UNCHANGED <<m_pool, m_cond, m_valid, status, established, lost, path, connected,
                   cachevars>>

\* getConnectionWithTimeout, lines 155-156
timed_pop(w) == front_pop(w, "tw_pop", "tw_probe")

\* getConnectionWithTimeout, lines 158-163
timed_probe(w) == probe_reset(w, "tw_probe", "tw_return")

\* getConnectionWithTimeout, line 165
timed_return(w) == return_conn(w, "tw_return")

\* PooledConnection::invalidate
invalidate(w) ==
    /\ ppc[w] = "holding"
    /\ m_valid[w]
    /\ m_valid' = [m_valid EXCEPT ![w] = FALSE]
    /\ UNCHANGED <<m_pool, pool_mutex, m_cond, ppc, conn, status, established, lost,
                   path, connected, cachevars>>

\* History: the sessions permanently out of the pool once worker w's handle
\* is destroyed, its session among them if the handle was invalidated.
Invalidated(w) ==
    IF conn[w] # nullptr /\ ~m_valid[w] THEN lost \cup {conn[w]} ELSE lost

\* A faulty destructor that returns the session whatever m_valid says.
destroy_ignores_valid(w, p) ==
    /\ ppc[w] = "holding"
    /\ path' = [path EXCEPT ![w] = p]
    /\ IF conn[w] # nullptr
       THEN /\ PGoto(w, "rc_lock")
            /\ UNCHANGED <<conn, m_valid>>
       ELSE /\ PGoto(w, "idle")
            /\ conn' = [conn EXCEPT ![w] = nullptr]
            /\ m_valid' = [m_valid EXCEPT ![w] = FALSE]
    /\ lost' = Invalidated(w)
    /\ UNCHANGED <<m_pool, pool_mutex, m_cond, status, established, connected, cachevars>>

\* A faulty scope exit that skips the release on the early error return.
destroy_skips_on_error(w, p) ==
    /\ ppc[w] = "holding"
    /\ path' = [path EXCEPT ![w] = p]
    /\ IF conn[w] # nullptr /\ m_valid[w] /\ p = "normal"
       THEN /\ PGoto(w, "rc_lock")
            /\ UNCHANGED <<conn, m_valid>>
       ELSE /\ PGoto(w, "idle")
            /\ conn' = [conn EXCEPT ![w] = nullptr]
            /\ m_valid' = [m_valid EXCEPT ![w] = FALSE]
    /\ lost' = Invalidated(w)
    /\ UNCHANGED <<m_pool, pool_mutex, m_cond, status, established, connected, cachevars>>

\* PooledConnection::~PooledConnection, run when the holder leaves the
\* handle's scope by path p: returnConnection if (m_conn && m_valid),
\* otherwise nothing, and the session stays out of the pool.
destroy(w, p) ==
    /\ ppc[w] = "holding"
    /\ path' = [path EXCEPT ![w] = p]
    /\ IF conn[w] # nullptr /\ m_valid[w]
       THEN /\ PGoto(w, "rc_lock")
            /\ UNCHANGED <<conn, m_valid>>
       ELSE /\ PGoto(w, "idle")
            /\ conn' = [conn EXCEPT ![w] = nullptr]
            /\ m_valid' = [m_valid EXCEPT ![w] = FALSE]
    /\ lost' = Invalidated(w)
    /\ UNCHANGED <<m_pool, pool_mutex, m_cond, status, established, connected, cachevars>>

\* The holder leaves the scope of its handle: the handlers return early on a
\* database error (part_002 lines 55-57) or at their end.
PooledConnection_destroy(w) == \E p \in {"normal", "error"} : destroy(w, p)

\* A faulty release that pushes the session twice.
returnConnection_pushes_twice(w) ==
    /\ ppc[w] = "rc_lock"
    /\ pool_mutex = "free"
    /\ m_pool' = Append(Append(m_pool, conn[w]), conn[w])
    /\ notify_one(w, "idle")
    /\ conn' = [conn EXCEPT ![w] = nullptr]
    /\ m_valid' = [m_valid EXCEPT ![w] = FALSE]
    /\ UNCHANGED <<pool_mutex, status, established, lost, path, connected, cachevars>>

\* A faulty release that signals every waiter.
returnConnection_notify_all(w) ==
    /\ ppc[w] = "rc_lock"
    /\ pool_mutex = "free"
    /\ m_pool' = Append(m_pool, conn[w])
    /\ m_cond' = {}
    /\ ppc' = [v \in PWorkers |-> IF v = w THEN "idle"
                                  ELSE IF v \in m_cond THEN Woken(v) ELSE ppc[v]]
    /\ conn' = [conn EXCEPT ![w] = nullptr]
    /\ m_valid' = [m_valid EXCEPT ![w] = FALSE]
    /\ UNCHANGED <<pool_mutex, status, established, lost, path, connected, cachevars>>

\* DBConnectionPool::returnConnection: under the mutex, push and notify_one;
\* the mutex is free again when it returns.
returnConnection(w) ==
    /\ ppc[w] = "rc_lock"
    /\ pool_mutex = "free"
    /\ m_pool' = Append(m_pool, conn[w])
    /\ notify_one(w, "idle")
    /\ conn' = [conn EXCEPT ![w] = nullptr]
    /\ m_valid' = [m_valid EXCEPT ![w] = FALSE]
    /\ UNCHANGED <<pool_mutex, status, established, lost, path, connected, cachevars>>

\* The server end of a session goes away: PQstatus is no longer CONNECTION_OK.
connection_lost(x) ==
    /\ x \in established
    /\ status[x] = "OK"
    /\ status' = [status EXCEPT ![x] = "BAD"]
    /\ UNCHANGED <<m_pool, pool_mutex, m_cond, ppc, conn, m_valid, established, lost,
                   path, connected, cachevars>>

\* A faulty is_connected that reports whether any session was established.
is_connected_at_construction ==
    /\ connected' = IF established # {} THEN "true" ELSE "false"
    /\ UNCHANGED <<m_pool, pool_mutex, m_cond, ppc, conn, m_valid, status,
                   established, lost, path, cachevars>>

\* DBConnectionPool::is_connected: reads m_pool without the mutex; as a step
\* of its own it sees the queue before or after any concurrent pop or push.
is_connected ==
    /\ connected' = IF m_pool # <<>> THEN "true" ELSE "false"
    /\ UNCHANGED <<m_pool, pool_mutex, m_cond, ppc, conn, m_valid, status,
                   established, lost, path, cachevars>>

\* The pool as constructed, with any of the PQconnectdb calls failing.
InitPool ==
    /\ m_max_size = MaxCap
    /\ EmptyCache
    /\ NotServing(EmptyTable)
    /\ \E est \in SUBSET Sessions : DBConnectionPool(est)

\* The pool as the handlers use it through PooledConnection, with
\* invalidate, which the handle offers to its holder.
NextPool ==
    \/ \E w \in PWorkers : PooledConnection(w)
    \/ \E w \in PWorkers : getConnection_lock(w)
    \/ \E w \in PWorkers : getConnection_wait(w)
    \/ \E w \in PWorkers : spurious_wakeup(w)
    \/ \E w \in PWorkers : getConnection_relock(w)
    \/ \E w \in PWorkers : getConnection_pop(w)
    \/ \E w \in PWorkers : getConnection_probe(w)
    \/ \E w \in PWorkers : getConnection_return(w)
    \/ \E w \in PWorkers : invalidate(w)
    \/ \E w \in PWorkers : PooledConnection_destroy(w)
    \/ \E w \in PWorkers : returnConnection(w)
    \/ \E x \in Sessions : connection_lost(x)

SpecPool == InitPool /\ [][NextPool]_vars

\* The pool of a server that passed the is_connected check at start-up.
InitLive ==
    /\ InitPool
    /\ established # {}

\* The pool as the handlers use it: no handle is invalidated; every holder
\* leaves the scope of its handle sooner or later.
NextLive ==
    \/ \E w \in PWorkers : PooledConnection(w)
    \/ \E w \in PWorkers : getConnection_lock(w)
    \/ \E w \in PWorkers : getConnection_wait(w)
    \/ \E w \in PWorkers : spurious_wakeup(w)
    \/ \E w \in PWorkers : getConnection_relock(w)
    \/ \E w \in PWorkers : getConnection_pop(w)
    \/ \E w \in PWorkers : getConnection_probe(w)
    \/ \E w \in PWorkers : getConnection_return(w)
    \/ \E w \in PWorkers : PooledConnection_destroy(w)
    \/ \E w \in PWorkers : returnConnection(w)

\* Scheduling: a thread that can run a statement runs it (weak fairness on
\* each step that needs no mutex or already holds it), and a thread that
\* asks for the mutex gets it if the mutex is free again and again (strong
\* fairness, more than std::mutex promises).  Nothing obliges a worker to
\* ask for a new handle, and no wake-up is spurious by obligation.
Fairness ==
    \A w \in PWorkers :
        /\ WF_vars(getConnection_wait(w))
        /\ WF_vars(getConnection_pop(w))
        /\ WF_vars(getConnection_probe(w))
        /\ WF_vars(getConnection_return(w))
        /\ WF_vars(PooledConnection_destroy(w))
        /\ SF_vars(getConnection_lock(w))
        /\ SF_vars(getConnection_relock(w))
        /\ SF_vars(returnConnection(w))

SpecLive == InitLive /\ [][NextLive]_vars /\ Fairness

\* The pool with callers of the timed acquire next to the handles.
NextTimed ==
    \/ NextPool
    \/ \E w \in PWorkers : getConnectionWithTimeout(w)
    \/ \E w \in PWorkers : timed_lock(w)
    \/ \E w \in PWorkers : timed_wait(w)
    \/ \E w \in PWorkers : timed_relock(w)
    \/ \E w \in PWorkers : timeout(w)
    \/ \E w \in PWorkers : timed_expired(w)
    \/ \E w \in PWorkers : timed_last(w)
    \/ \E w \in PWorkers : timed_pop(w)
    \/ \E w \in PWorkers : timed_probe(w)
    \/ \E w \in PWorkers : timed_return(w)

SpecTimed == InitPool /\ [][NextTimed]_vars

\* The pool with is_connected called at any moment of its life.
NextConnected ==
    \/ NextPool
    \/ is_connected

SpecConnected == InitPool /\ [][NextConnected]_vars

\* ---------------------------------------------------------------- the server
\* The history of the requests, which the steps of the pool and of the
\* cache leave alone.
hist == <<committed, fresh_del, fresh_val, after_del, after_put, overwritten, crossed,
          raced, served>>

HGoto(w, label) == hpc' = [hpc EXCEPT ![w] = label]

\* A handler is running on worker w: its request has come in and its
\* response has not gone out.
InProgress(w) == hpc[w] \notin {"idle", "done"}

\* The workers other than w that are serving a /create or /delete of key.
Writers(w, key) ==
    {v \in HWorkers \ {w} : InProgress(v) /\ req[v].op \in {"create", "delete"}
                            /\ req[v].key = key}

\* The workers that are serving a /read of key.
Readers(key) == {v \in HWorkers : InProgress(v) /\ req[v].op = "read" /\ req[v].key = key}

\* The value the cache holds for key, or absent.
Cached(key) ==
    IF key \in DOMAIN m_cache_map THEN node[m_cache_map[key]].second ELSE absent

\* A faulty main that listens whatever is_connected() says.
main_listens_anyway ==
    /\ server = "boot"
    /\ connected' = IF m_pool # <<>> THEN "true" ELSE "false"
    /\ server' = "listening"
    /\ UNCHANGED <<kv_pairs, hpc, req, res, db_val, hist, lvars, mvars>>
    /\ UNCHANGED <<m_pool, pool_mutex, m_cond, ppc, conn, m_valid, status,
                   established, lost, path>>

\* main, lines 22-26 and 143: the pool is constructed, is_connected() is
\* tested once, and the process either returns 1 or goes on to register
\* the handlers and listen.
main ==
    /\ server = "boot"
    /\ connected' = IF m_pool # <<>> THEN "true" ELSE "false"
    /\ server' = IF connected' = "true" THEN "listening" ELSE "exited"
    /\ UNCHANGED <<kv_pairs, hpc, req, res, db_val, hist, lvars, mvars>>
    /\ UNCHANGED <<m_pool, pool_mutex, m_cond, ppc, conn, m_valid, status,
                   established, lost, path>>

\* httplib hands a request with its parameters to worker w, which has no
\* request in hand and now enters the handler with a fresh Response: /read
\* goes to the cache first, /create and /delete to the pool.
request(w, op, key, value) ==
    /\ server = "listening"
    /\ ~InProgress(w)
    /\ served < MaxReq
    /\ served' = served + 1
    /\ req' = [req EXCEPT ![w] = [op |-> op, key |-> key, value |-> value]]
    /\ res' = [res EXCEPT ![w] = [status |-> 0, body |-> "-"]]
    /\ db_val' = [db_val EXCEPT ![w] = nullopt]
    /\ HGoto(w, IF op = "read" THEN "probe" ELSE "acquire")
    /\ fresh_del' = IF op = "create" THEN fresh_del \ {key} ELSE fresh_del
    /\ fresh_val' = IF op = "read" THEN fresh_val ELSE [fresh_val EXCEPT ![key] = nullopt]
    /\ after_del' = [v \in HWorkers |->
                        IF v = w THEN op = "read" /\ key \in fresh_del
                        ELSE IF op = "create" /\ v \in Readers(key) THEN FALSE
                        ELSE after_del[v]]
    /\ after_put' = [v \in HWorkers |->
                        IF v = w THEN (IF op = "read" THEN fresh_val[key] ELSE nullopt)
                        ELSE IF op # "read" /\ v \in Readers(key) THEN nullopt
                        ELSE after_put[v]]
    /\ raced' = [v \in HWorkers |->
                    IF v = w THEN op # "read" /\ Writers(w, key) # {}
                    ELSE IF op # "read" /\ v \in Writers(w, key) THEN TRUE
                    ELSE raced[v]]
    /\ UNCHANGED <<server, kv_pairs, committed, overwritten, crossed>>
    /\ UNCHANGED <<lvars, mvars, pvars>>

\* The first test of each of the three handlers, lines 40-44, 68-72,
\* 99-103: a request that lacks a parameter is answered 400 and touches
\* nothing.
bad_request(w) ==
    /\ server = "listening"
    /\ ~InProgress(w)
    /\ served < MaxReq
    /\ served' = served + 1
    /\ req' = [req EXCEPT ![w] = [op |-> "-", key |-> "-", value |-> "-"]]
    /\ res' = [res EXCEPT ![w] = [status |-> 400, body |-> "-"]]
    /\ db_val' = [db_val EXCEPT ![w] = nullopt]
    /\ after_del' = [after_del EXCEPT ![w] = FALSE]
    /\ after_put' = [after_put EXCEPT ![w] = nullopt]
    /\ raced' = [raced EXCEPT ![w] = FALSE]
    /\ HGoto(w, "done")
    /\ UNCHANGED <<server, kv_pairs, committed, fresh_del, fresh_val, overwritten, crossed,
                   lvars, mvars, pvars>>

\* DBConnectionPool::PooledConnection conn(db_pool), lines 51, 84, 107: the
\* handle's constructor and its getConnection as one step. The worker
\* stays here while m_pool is empty; then it pops the front session,
\* probes it and, if it is not CONNECTION_OK, resets it once.
getConnection(w) ==
    /\ hpc[w] = "acquire"
    /\ m_pool # <<>>
    /\ conn' = [conn EXCEPT ![w] = Head(m_pool)]
    /\ m_pool' = Tail(m_pool)
    /\ m_valid' = [m_valid EXCEPT ![w] = TRUE]
    /\ IF status[Head(m_pool)] = "OK"
       THEN status' = status
       ELSE \E r \in {"OK", "BAD"} : status' = [status EXCEPT ![Head(m_pool)] = r]
    /\ PGoto(w, "holding")
    /\ HGoto(w, "call")
    /\ UNCHANGED <<pool_mutex, m_cond, established, lost, path, connected>>
    /\ UNCHANGED <<server, kv_pairs, req, res, db_val, hist, lvars, mvars>>

\* DBConnectionPool::put: the upsert into kv_pairs, which commits or fails.
db_pool_put(table, key, value, ok) == IF ok THEN [table EXCEPT ![key] = value] ELSE table

\* DBConnectionPool::get: the value of the row, or nullopt when the query
\* fails or finds no row.
db_pool_get(table, key, ok) == IF ok /\ table[key] # absent THEN table[key] ELSE nullopt

\* DBConnectionPool::remove: the delete from kv_pairs, which commits, whether
\* or not there was a row, or fails.
db_pool_remove(table, key, ok) == IF ok THEN [table EXCEPT ![key] = absent] ELSE table

\* History: the /create requests of key that have committed and not yet
\* updated the cache learn what was committed over them: a value, or
\* nullopt after a delete.
Overwrite(w, key, value) ==
    [v \in HWorkers |->
        IF v = w THEN nullopt
        ELSE IF hpc[v] = "update" /\ req[v].op = "create" /\ req[v].key = key
        THEN value ELSE overwritten[v]]

\* History: crossed, once a step has written the cache entry of key.
Uncrossed(key) ==
    [k \in HKeys |-> IF k = key \/ k \notin DOMAIN m_cache_map' THEN nullopt ELSE crossed[k]]

\* A faulty /create that updates the cache whether or not the upsert committed.
create_put_caches_failure(w, ok) ==
    /\ hpc[w] = "call"
    /\ req[w].op = "create"
    /\ kv_pairs' = db_pool_put(kv_pairs, req[w].key, req[w].value, ok)
    /\ HGoto(w, "update")
    /\ res' = res
    /\ committed' = IF ok THEN committed \cup {<<req[w].key, req[w].value>>} ELSE committed
    /\ overwritten' = IF ok THEN Overwrite(w, req[w].key, req[w].value) ELSE overwritten
    /\ crossed' = IF ok THEN [crossed EXCEPT ![req[w].key] = nullopt] ELSE crossed
    /\ UNCHANGED <<server, req, db_val, fresh_del, fresh_val, after_del, after_put, raced, served>>
    /\ UNCHANGED <<lvars, mvars, pvars>>

\* /create, lines 54-58: db_pool.put with the session; on failure 500 and return.
create_put(w, ok) ==
    /\ hpc[w] = "call"
    /\ req[w].op = "create"
    /\ kv_pairs' = db_pool_put(kv_pairs, req[w].key, req[w].value, ok)
    /\ IF ok
       THEN /\ HGoto(w, "update")
            /\ res' = res
            /\ committed' = committed \cup {<<req[w].key, req[w].value>>}
            /\ overwritten' = Overwrite(w, req[w].key, req[w].value)
            /\ crossed' = [crossed EXCEPT ![req[w].key] = nullopt]
       ELSE /\ HGoto(w, "leave")
            /\ res' = [res EXCEPT ![w] = [status |-> 500, body |-> "-"]]
            /\ UNCHANGED <<committed, overwritten, crossed>>
    /\ UNCHANGED <<server, req, db_val, fresh_del, fresh_val, after_del, after_put, raced, served>>
    /\ UNCHANGED <<lvars, mvars, pvars>>

\* A faulty /create that gives its session back before it updates the cache.
create_cache_released(w) ==
    /\ hpc[w] = "update"
    /\ req[w].op = "create"
    /\ put(req[w].key, req[w].value)
    /\ res' = [res EXCEPT ![w] = [status |-> 200, body |-> "-"]]
    /\ HGoto(w, "leave")
    /\ m_pool' = Append(m_pool, conn[w])
    /\ conn' = [conn EXCEPT ![w] = nullptr]
    /\ m_valid' = [m_valid EXCEPT ![w] = FALSE]
    /\ PGoto(w, "idle")
    /\ crossed' = Uncrossed(req[w].key)
    /\ overwritten' = [overwritten EXCEPT ![w] = nullopt]
    /\ UNCHANGED <<server, kv_pairs, req, db_val, committed, fresh_del, fresh_val,
                   after_del, after_put, raced, served>>
    /\ UNCHANGED <<mvars, pool_mutex, m_cond, status, established, lost, path, connected>>

\* A faulty /create that caches whatever kv_pairs holds by then.
create_cache_rereads(w) ==
    /\ hpc[w] = "update"
    /\ req[w].op = "create"
    /\ put(req[w].key, IF kv_pairs[req[w].key] # absent
                       THEN kv_pairs[req[w].key] ELSE req[w].value)
    /\ res' = [res EXCEPT ![w] = [status |-> 200, body |-> "-"]]
    /\ HGoto(w, "leave")
    /\ crossed' = IF /\ overwritten[w] \notin {nullopt, req[w].value}
                     /\ ~ \E v \in HWorkers \ {w} : hpc[v] = "update" /\ req[v].key = req[w].key
                  THEN [Uncrossed(req[w].key) EXCEPT
                           ![req[w].key] = <<req[w].value, overwritten[w]>>]
                  ELSE Uncrossed(req[w].key)
    /\ overwritten' = [overwritten EXCEPT ![w] = nullopt]
    /\ UNCHANGED <<server, kv_pairs, req, db_val, committed, fresh_del, fresh_val,
                   after_del, after_put, raced, served>>
    /\ UNCHANGED <<mvars, pvars>>

\* /create, lines 61-64: cache.put(key, value), then 200.
create_cache(w) ==
    /\ hpc[w] = "update"
    /\ req[w].op = "create"
    /\ put(req[w].key, req[w].value)
    /\ res' = [res EXCEPT ![w] = [status |-> 200, body |-> "-"]]
    /\ HGoto(w, "leave")
    /\ crossed' = IF /\ overwritten[w] \notin {nullopt, req[w].value}
                     /\ ~ \E v \in HWorkers \ {w} : hpc[v] = "update" /\ req[v].key = req[w].key
                  THEN [Uncrossed(req[w].key) EXCEPT
                           ![req[w].key] = <<req[w].value, overwritten[w]>>]
                  ELSE Uncrossed(req[w].key)
    /\ overwritten' = [overwritten EXCEPT ![w] = nullopt]
    /\ UNCHANGED <<server, kv_pairs, req, db_val, committed, fresh_del, fresh_val,
                   after_del, after_put, raced, served>>
    /\ UNCHANGED <<mvars, pvars>>

\* A faulty /read that cannot look in the cache before a session is idle.
read_cache_needs_session(w) ==
    /\ hpc[w] = "probe"
    /\ req[w].op = "read"
    /\ m_pool # <<>>
    /\ get(req[w].key)
    /\ IF call'.ret # nullopt
       THEN /\ res' = [res EXCEPT ![w] = [status |-> 200, body |-> call'.ret]]
            /\ HGoto(w, "done")
       ELSE /\ res' = res
            /\ HGoto(w, "acquire")
    /\ UNCHANGED <<server, kv_pairs, req, db_val, hist, mvars, pvars>>

\* A faulty /read that answers a hit with the key instead of the cached value.
read_cache_answers_key(w) ==
    /\ hpc[w] = "probe"
    /\ req[w].op = "read"
    /\ get(req[w].key)
    /\ IF call'.ret # nullopt
       THEN /\ res' = [res EXCEPT ![w] = [status |-> 200, body |-> req[w].key]]
            /\ HGoto(w, "done")
       ELSE /\ res' = res
            /\ HGoto(w, "acquire")
    /\ UNCHANGED <<server, kv_pairs, req, db_val, hist, mvars, pvars>>

\* /read, lines 76-81: cache.get(key); a hit is answered 200 at once.
read_cache(w) ==
    /\ hpc[w] = "probe"
    /\ req[w].op = "read"
    /\ get(req[w].key)
    /\ IF call'.ret # nullopt
       THEN /\ res' = [res EXCEPT ![w] = [status |-> 200, body |-> call'.ret]]
            /\ HGoto(w, "done")
       ELSE /\ res' = res
            /\ HGoto(w, "acquire")
    /\ UNCHANGED <<server, kv_pairs, req, db_val, hist, mvars, pvars>>

\* A faulty /read that takes a value of its own when the backend gives none.
read_get_invents(w, ok) ==
    /\ hpc[w] = "call"
    /\ req[w].op = "read"
    /\ db_val' = [db_val EXCEPT ![w] = IF db_pool_get(kv_pairs, req[w].key, ok) # nullopt
                                       THEN db_pool_get(kv_pairs, req[w].key, ok) ELSE "1"]
    /\ HGoto(w, "update")
    /\ res' = res
    /\ UNCHANGED <<server, kv_pairs, req, hist, lvars, mvars, pvars>>

\* /read, lines 87-88 and 92-95: db_pool.get with the session; without a
\* value 404.
read_get(w, ok) ==
    /\ hpc[w] = "call"
    /\ req[w].op = "read"
    /\ db_val' = [db_val EXCEPT ![w] = db_pool_get(kv_pairs, req[w].key, ok)]
    /\ IF db_val'[w] # nullopt
       THEN /\ HGoto(w, "update")
            /\ res' = res
       ELSE /\ HGoto(w, "leave")
            /\ res' = [res EXCEPT ![w] = [status |-> 404, body |-> "-"]]
    /\ UNCHANGED <<server, kv_pairs, req, hist, lvars, mvars, pvars>>

\* /read, lines 89-91: cache.put(key, *db_val), then 200 with the value.
read_put(w) ==
    /\ hpc[w] = "update"
    /\ req[w].op = "read"
    /\ put(req[w].key, db_val[w])
    /\ res' = [res EXCEPT ![w] = [status |-> 200, body |-> db_val[w]]]
    /\ HGoto(w, "leave")
    /\ crossed' = Uncrossed(req[w].key)
    /\ UNCHANGED <<server, kv_pairs, req, db_val, committed, fresh_del, fresh_val,
                   after_del, after_put, overwritten, raced, served>>
    /\ UNCHANGED <<mvars, pvars>>

\* A faulty /delete that drops the cache entry whether or not the backend
\* delete committed.
delete_remove_uncaches_failure(w, ok) ==
    /\ hpc[w] = "call"
    /\ req[w].op = "delete"
    /\ kv_pairs' = db_pool_remove(kv_pairs, req[w].key, ok)
    /\ HGoto(w, "update")
    /\ res' = res
    /\ overwritten' = IF ok THEN Overwrite(w, req[w].key, nullopt) ELSE overwritten
    /\ crossed' = IF ok THEN [crossed EXCEPT ![req[w].key] = nullopt] ELSE crossed
    /\ UNCHANGED <<server, req, db_val, committed, fresh_del, fresh_val, after_del,
                   after_put, raced, served>>
    /\ UNCHANGED <<lvars, mvars, pvars>>

\* /delete, lines 110-114: db_pool.remove with the session; on failure 500
\* and return.
delete_remove(w, ok) ==
    /\ hpc[w] = "call"
    /\ req[w].op = "delete"
    /\ kv_pairs' = db_pool_remove(kv_pairs, req[w].key, ok)
    /\ IF ok
       THEN /\ HGoto(w, "update")
            /\ res' = res
            /\ overwritten' = Overwrite(w, req[w].key, nullopt)
            /\ crossed' = [crossed EXCEPT ![req[w].key] = nullopt]
       ELSE /\ HGoto(w, "leave")
            /\ res' = [res EXCEPT ![w] = [status |-> 500, body |-> "-"]]
            /\ UNCHANGED <<overwritten, crossed>>
    /\ UNCHANGED <<server, req, db_val, committed, fresh_del, fresh_val, after_del,
                   after_put, raced, served>>
    /\ UNCHANGED <<lvars, mvars, pvars>>

\* A faulty /delete that answers 200 and leaves the cache entry where it is.
delete_cache_forgets(w) ==
    /\ hpc[w] = "update"
    /\ req[w].op = "delete"
    /\ res' = [res EXCEPT ![w] = [status |-> 200, body |-> "-"]]
    /\ HGoto(w, "leave")
    /\ UNCHANGED <<lvars, mvars, pvars>>
    /\ crossed' = Uncrossed(req[w].key)
    /\ UNCHANGED <<server, kv_pairs, req, db_val, committed, fresh_del, fresh_val,
                   after_del, after_put, overwritten, raced, served>>

\* /delete, lines 117-120: cache.remove(key), then 200.
delete_cache(w) ==
    /\ hpc[w] = "update"
    /\ req[w].op = "delete"
    /\ remove(req[w].key)
    /\ res' = [res EXCEPT ![w] = [status |-> 200, body |-> "-"]]
    /\ HGoto(w, "leave")
    /\ crossed' = Uncrossed(req[w].key)
    /\ UNCHANGED <<server, kv_pairs, req, db_val, committed, fresh_del, fresh_val,
                   after_del, after_put, overwritten, raced, served>>
    /\ UNCHANGED <<mvars, pvars>>

\* History: what the completion of worker w's request adds to fresh_del.
Deleted(w) ==
    IF req[w].op = "delete" /\ res[w].status = 200 /\ ~raced[w]
    THEN fresh_del \cup {req[w].key} ELSE fresh_del

\* History: what the completion of worker w's request makes of fresh_val.
Created(w) ==
    IF req[w].op = "create" /\ res[w].status = 200 /\ ~raced[w]
    THEN [fresh_val EXCEPT ![req[w].key] = req[w].value] ELSE fresh_val

\* A faulty handler end that keeps the session after an error response.
leave_keeps_on_error(w) ==
    /\ hpc[w] = "leave"
    /\ IF conn[w] # nullptr /\ m_valid[w] /\ res[w].status = 200
       THEN /\ m_pool' = Append(m_pool, conn[w])
            /\ conn' = [conn EXCEPT ![w] = nullptr]
            /\ m_valid' = [m_valid EXCEPT ![w] = FALSE]
            /\ PGoto(w, "idle")
       ELSE UNCHANGED <<m_pool, conn, m_valid, ppc>>
    /\ HGoto(w, "done")
    /\ fresh_del' = Deleted(w)
    /\ fresh_val' = Created(w)
    /\ UNCHANGED <<pool_mutex, m_cond, status, established, lost, path, connected>>
    /\ UNCHANGED <<server, kv_pairs, req, res, db_val, committed, after_del, after_put,
                   overwritten, crossed, raced, served, lvars, mvars>>

\* The closing brace of the handler, lines 65, 96, 121, or its early return,
\* lines 57, 113: conn goes out of scope, its destructor returns the
\* session with returnConnection if (m_conn && m_valid), the handler
\* returns and httplib sends the response: the request is complete.
leave(w) ==
    /\ hpc[w] = "leave"
    /\ IF conn[w] # nullptr /\ m_valid[w]
       THEN /\ m_pool' = Append(m_pool, conn[w])
            /\ conn' = [conn EXCEPT ![w] = nullptr]
            /\ m_valid' = [m_valid EXCEPT ![w] = FALSE]
            /\ PGoto(w, "idle")
       ELSE UNCHANGED <<m_pool, conn, m_valid, ppc>>
    /\ HGoto(w, "done")
    /\ fresh_del' = Deleted(w)
    /\ fresh_val' = Created(w)
    /\ UNCHANGED <<pool_mutex, m_cond, status, established, lost, path, connected>>
    /\ UNCHANGED <<server, kv_pairs, req, res, db_val, committed, after_del, after_put,
                   overwritten, crossed, raced, served, lvars, mvars>>

\* The table the server finds at its start: a row for "a", none for "b".
Table == [EmptyTable EXCEPT !["a"] = "1"]

\* The process from the start of main, over this table and a pool where
\* some of the PQconnectdb calls failed. The sessions are alike, so which of
\* the calls failed is left out: the first n succeeded.
InitServer ==
    /\ m_max_size = MaxCap
    /\ EmptyCache
    /\ NotServing(Table)
    /\ \E n \in 0 .. PoolSize : DBConnectionPool(1 .. n)

\* The requests a client sends: an operation, a key and, for /create, a value.
Ops == {"create", "read", "delete"}

NextServer ==
    \/ main /\ UNCHANGED wvars
    \/ \E w \in HWorkers, op \in Ops, key \in HKeys :
          \E value \in IF op = "create" THEN Values ELSE {"-"} :
             request(w, op, key, value) /\ UNCHANGED wvars
    \/ \E w \in HWorkers : bad_request(w) /\ UNCHANGED wvars
    \/ \E w \in HWorkers : getConnection(w) /\ UNCHANGED wvars
    \/ \E w \in HWorkers, ok \in BOOLEAN : create_put(w, ok) /\ UNCHANGED wvars
    \/ \E w \in HWorkers : create_cache(w) /\ UNCHANGED wvars
    \/ \E w \in HWorkers : read_cache(w) /\ UNCHANGED wvars
    \/ \E w \in HWorkers, ok \in BOOLEAN : read_get(w, ok) /\ UNCHANGED wvars
    \/ \E w \in HWorkers : read_put(w) /\ UNCHANGED wvars
    \/ \E w \in HWorkers, ok \in BOOLEAN : delete_remove(w, ok) /\ UNCHANGED wvars
    \/ \E w \in HWorkers : delete_cache(w) /\ UNCHANGED wvars
    \/ \E w \in HWorkers : leave(w) /\ UNCHANGED wvars

SpecServer == InitServer /\ [][NextServer]_vars

\* ------------------------------------------------- the requests, observed
\* Worker w takes up a request in this step.
Starts(w) == ~InProgress(w) /\ InProgress(w)'

\* The workers other than w with a request on key in progress.
Others(w, key) == {v \in HWorkers \ {w} : InProgress(v) /\ req[v].key = key}

\* The values the cache and the backend hold for key.
Held_for(key) == {Cached(key), kv_pairs[key]} \ {absent}

\* The cache holds a value for key that differs from the backend's.
Stale(key) == Cached(key) \notin {absent, kv_pairs[key]}

\* What an observer notes of a step of the server: the keys whose cached
\* value differs from the backend's after it and, of each request, the values
\* cache and backend have held for its key since it came in, whether its key
\* had diverged before it came in, and whether another request on its key
\* has been in progress beside it.
Watch ==
    /\ diverged' = diverged \cup {k \in HKeys : Stale(k)'}
    /\ late' = [w \in HWorkers |-> IF Starts(w) THEN req'[w].key \in diverged ELSE late[w]]
    /\ seen' = [w \in HWorkers |->
                  IF Starts(w) THEN UNION {Held_for(k)' : k \in HKeys \cap {req'[w].key}}
                  ELSE IF InProgress(w) THEN seen[w] \cup Held_for(req[w].key)'
                  ELSE seen[w]]
    /\ alone' = [w \in HWorkers |->
                   IF Starts(w) THEN \A k \in HKeys \cap {req'[w].key} : Others(w, k)' = {}
                   ELSE IF InProgress(w) THEN alone[w] /\ Others(w, req[w].key)' = {}
                   ELSE alone[w]]

\* The server that listens with every session established, over a cache of
\* one entry, so that a request on one key evicts the other.
InitWatch ==
    /\ m_max_size = 1
    /\ EmptyCache
    /\ NotServing(Table)
    /\ DBConnectionPool(Sessions)

NextWatch ==
    \/ main /\ Watch
    \/ \E w \in HWorkers, op \in Ops, key \in HKeys :
          \E value \in IF op = "create" THEN Values ELSE {"-"} :
             request(w, op, key, value) /\ Watch
    \/ \E w \in HWorkers : bad_request(w) /\ Watch
    \/ \E w \in HWorkers : getConnection(w) /\ Watch
    \/ \E w \in HWorkers, ok \in BOOLEAN : create_put(w, ok) /\ Watch
    \/ \E w \in HWorkers : create_cache(w) /\ Watch
    \/ \E w \in HWorkers : read_cache(w) /\ Watch
    \/ \E w \in HWorkers, ok \in BOOLEAN : read_get(w, ok) /\ Watch
    \/ \E w \in HWorkers : read_put(w) /\ Watch
    \/ \E w \in HWorkers, ok \in BOOLEAN : delete_remove(w, ok) /\ Watch
    \/ \E w \in HWorkers : delete_cache(w) /\ Watch
    \/ \E w \in HWorkers : leave(w) /\ Watch

SpecWatch == InitWatch /\ [][NextWatch]_vars

\* ------------------------------- handlers, cache and pool, one statement a step
\* The httplib thread of worker w, as the cache knows it.
cache_thread(w) == IF w = "w1" THEN "t1" ELSE "t2"

\* The cache call a handler makes from where it is: cache.get at lines 76,
\* cache.put at lines 61 and 89, cache.remove at line 117.
cache_op(w) ==
    IF hpc[w] = "probe" THEN [op |-> "get", key |-> req[w].key, value |-> "-"]
    ELSE IF req[w].op = "create" THEN [op |-> "put", key |-> req[w].key, value |-> req[w].value]
    ELSE IF req[w].op = "read" THEN [op |-> "put", key |-> req[w].key, value |-> db_val[w]]
    ELSE [op |-> "remove", key |-> req[w].key, value |-> "-"]

\* The handler calls into the cache: the call has yet to take m_mutex.
handler_cache_call(w) ==
    /\ hpc[w] \in {"probe", "update"}
    /\ cpc[cache_thread(w)] = "idle"
    /\ cop' = [cop EXCEPT ![cache_thread(w)] = cache_op(w)]
    /\ Goto(cache_thread(w), "lock")
    /\ UNCHANGED <<lvars, cache_mutex, csnap, at_lock, pvars, svars>>

\* A faulty /read that keeps the cache locked from its miss until its put.
handler_cache_return_keeps_lock(w) ==
    /\ cpc[cache_thread(w)] = "unlock"
    /\ cache_mutex' = IF hpc[w] = "probe" /\ req[w].key \notin DOMAIN m_cache_map
                      THEN cache_mutex
                      ELSE IF cache_mutex = cache_thread(w) THEN "free" ELSE cache_mutex
    /\ Goto(cache_thread(w), "idle")
    /\ at_lock' = [at_lock EXCEPT ![cache_thread(w)] = [items |-> <<>>, index |-> {}]]
    /\ cop' = [cop EXCEPT ![cache_thread(w)] = [op |-> "-", key |-> "-", value |-> "-"]]
    /\ csnap' = csnap
    /\ IF hpc[w] = "probe"
       THEN IF req[w].key \in DOMAIN m_cache_map
            THEN /\ res' = [res EXCEPT ![w] = [status |-> 200, body |-> Cached(req[w].key)]]
                 /\ HGoto(w, "done")
            ELSE /\ res' = res
                 /\ HGoto(w, "acquire")
       ELSE /\ res' = [res EXCEPT ![w] =
                          [status |-> 200,
                           body |-> IF req[w].op = "read" THEN db_val[w] ELSE "-"]]
            /\ HGoto(w, "leave")
    /\ UNCHANGED <<lvars, pvars, server, kv_pairs, req, db_val, hist, wvars>>

\* The cache call returns: its lock_guard releases m_mutex, and the handler
\* goes on with the result. After cache.get a hit is answered 200 at once
\* and a miss goes to the pool (lines 77-84); after cache.put and
\* cache.remove the answer is 200 (lines 63, 90-91, 119).
handler_cache_return(w) ==
    /\ cpc[cache_thread(w)] = "unlock"
    /\ cache_mutex' = IF cache_mutex = cache_thread(w) THEN "free" ELSE cache_mutex
    /\ Goto(cache_thread(w), "idle")
    /\ at_lock' = [at_lock EXCEPT ![cache_thread(w)] = [items |-> <<>>, index |-> {}]]
    /\ cop' = [cop EXCEPT ![cache_thread(w)] = [op |-> "-", key |-> "-", value |-> "-"]]
    /\ csnap' = csnap
    /\ IF hpc[w] = "probe"
       THEN IF req[w].key \in DOMAIN m_cache_map
            THEN /\ res' = [res EXCEPT ![w] = [status |-> 200, body |-> Cached(req[w].key)]]
                 /\ HGoto(w, "done")
            ELSE /\ res' = res
                 /\ HGoto(w, "acquire")
       ELSE /\ res' = [res EXCEPT ![w] =
                          [status |-> 200,
                           body |-> IF req[w].op = "read" THEN db_val[w] ELSE "-"]]
            /\ HGoto(w, "leave")
    /\ UNCHANGED <<lvars, pvars, server, kv_pairs, req, db_val, hist, wvars>>

\* The handle is constructed and holds its session (lines 51, 84, 107): the
\* handler goes on to its backend call.
handler_holds(w) ==
    /\ hpc[w] = "acquire"
    /\ ppc[w] = "holding"
    /\ HGoto(w, "call")
    /\ UNCHANGED <<lvars, mvars, pvars, server, kv_pairs, req, res, db_val, hist, wvars>>

\* The handler returns once the destructor of its handle has run, and
\* httplib sends the response.
handler_return(w) ==
    /\ hpc[w] = "leave"
    /\ ppc[w] = "idle"
    /\ HGoto(w, "done")
    /\ UNCHANGED <<lvars, mvars, pvars, server, kv_pairs, req, res, db_val, hist, wvars>>

\* The steps of the request worker w is serving, other than the end of a
\* wait without notify: the handler's own statements, those of the cache
\* call it is in, and those of the handle and the pool.
Runs(w) ==
    \/ handler_cache_call(w)
    \/ put_lock(cache_thread(w)) \/ put_splice(cache_thread(w)) \/ put_assign(cache_thread(w))
    \/ put_erase(cache_thread(w)) \/ put_pop(cache_thread(w))
    \/ put_push(cache_thread(w)) \/ put_index(cache_thread(w))
    \/ get_lock(cache_thread(w)) \/ get_splice(cache_thread(w))
    \/ remove_lock(cache_thread(w)) \/ remove_list(cache_thread(w))
    \/ remove_map(cache_thread(w))
    \/ handler_cache_return(w)
    \/ hpc[w] = "acquire" /\ PooledConnection(w)
    \/ getConnection_lock(w)
    \/ getConnection_wait(w)
    \/ getConnection_relock(w)
    \/ getConnection_pop(w)
    \/ getConnection_probe(w)
    \/ getConnection_return(w)
    \/ handler_holds(w)
    \/ \E ok \in BOOLEAN : create_put(w, ok) /\ UNCHANGED wvars
    \/ \E ok \in BOOLEAN : read_get(w, ok) /\ UNCHANGED wvars
    \/ \E ok \in BOOLEAN : delete_remove(w, ok) /\ UNCHANGED wvars
    \/ hpc[w] = "leave" /\ PooledConnection_destroy(w)
    \/ returnConnection(w)
    \/ handler_return(w)

\* The server that passed the is_connected check at start-up: at least one
\* session is established.
InitCombined ==
    /\ m_max_size = 1
    /\ EmptyCache
    /\ NotServing(Table)
    /\ \E n \in 1 .. PoolSize : DBConnectionPool(1 .. n)

\* The combined system: the requests, whose /create all write one value,
\* the statements of the workers, and what happens to them from outside.
NextCombined ==
    \/ main /\ UNCHANGED wvars
    \/ \E w \in HWorkers, op \in Ops, key \in HKeys :
          \E value \in IF op = "create" THEN {"2"} ELSE {"-"} :
             request(w, op, key, value) /\ UNCHANGED wvars
    \/ \E w \in HWorkers : Runs(w)
    \/ \E w \in HWorkers : spurious_wakeup(w)
    \/ \E x \in Sessions : connection_lost(x)

SpecCombined == InitCombined /\ [][NextCombined]_vars

\* ------------------------------------------------------------ properties
KeysOf(items) == {items[i][1] : i \in DOMAIN items}

Without(items, key) == SelectSeq(items, LAMBDA e : e[1] # key)

\* The entries now, and after the step, MRU first.
Pre == Items(m_lru_list, node)
Post == Items(m_lru_list', node')

\* C1: with a capacity of at least one, the number of resident entries (in
\* the list and in the index) never exceeds m_max_size, after any sequence
\* of put, get and remove.
C1_SizeBounded ==
    m_max_size >= 1 =>
        /\ Len(m_lru_list) <= m_max_size
        /\ Cardinality(DOMAIN m_cache_map) <= m_max_size

\* A put of a new key into a full cache has run, and the cache is full still.
C1_Witness ==
    /\ call.op = "put"
    /\ call.key \notin before.index
    /\ Len(before.items) = m_max_size
    /\ Len(m_lru_list) = m_max_size

\* C2: index and recency list agree: every list node is live, the indexed
\* keys are the keys in the list, no key (and no node) is in the list twice,
\* the index entry of key K refers to the list node holding K, and index and
\* list have the same size.
C2_IndexMatchesList ==
    /\ \A i \in DOMAIN m_lru_list : m_lru_list[i] \in DOMAIN node
    /\ DOMAIN m_cache_map = Range(ListKeys(m_lru_list, node))
    /\ \A i, j \in DOMAIN m_lru_list :
          i # j => /\ m_lru_list[i] # m_lru_list[j]
                   /\ node[m_lru_list[i]].first # node[m_lru_list[j]].first
    /\ \A k \in DOMAIN m_cache_map :
          /\ m_cache_map[k] \in Range(m_lru_list)
          /\ node[m_cache_map[k]].first = k
    /\ Cardinality(DOMAIN m_cache_map) = Len(m_lru_list)
    /\ DOMAIN node = Range(m_lru_list)

\* A remove of a resident key has run and left other entries behind.
C2_Witness ==
    /\ call.op = "remove"
    /\ call.key \in before.index
    /\ Len(before.items) = 2
    /\ Len(m_lru_list) = 1

ValueOf(items, key) == (CHOOSE e \in Range(items) : e[1] = key)[2]

Reverse(seq) == [i \in 1 .. Len(seq) |-> seq[Len(seq) + 1 - i]]

\* C3: put(K, V) of a key that is not resident.  When the cache holds
\* m_max_size entries, exactly the LRU tail leaves list and index, the other
\* entries keep values and order, and (K, V) is the new MRU head; when it
\* holds fewer, nothing leaves, the size grows by one and (K, V) is the head.
C3_PutAbsent ==
    [][ (call'.op = "put" /\ call'.key \notin DOMAIN m_cache_map) =>
          LET K == call'.key
              V == call'.value
          IN  /\ Len(m_lru_list) = m_max_size =>
                    /\ Post = <<<<K, V>>>> \o SubSeq(Pre, 1, Len(Pre) - 1)
                    /\ DOMAIN m_cache_map' =
                           ((DOMAIN m_cache_map) \ {Pre[Len(Pre)][1]}) \cup {K}
                    /\ \A k \in (DOMAIN m_cache_map') \ {K} : m_cache_map'[k] = m_cache_map[k]
                    /\ m_cache_map'[K] = m_lru_list'[1]
              /\ Len(m_lru_list) < m_max_size =>
                    /\ Post = <<<<K, V>>>> \o Pre
                    /\ Len(m_lru_list') = Len(m_lru_list) + 1
                    /\ DOMAIN m_cache_map' = (DOMAIN m_cache_map) \cup {K}
                    /\ \A k \in DOMAIN m_cache_map : m_cache_map'[k] = m_cache_map[k]
                    /\ m_cache_map'[K] = m_lru_list'[1]
              /\ Len(m_lru_list) <= m_max_size
      ]_vars

\* A new key was put into a full cache of two: the old tail is gone, the old
\* head is second, the new entry is the head.
C3_Witness ==
    /\ call.op = "put"
    /\ call.key \notin before.index
    /\ m_max_size = 2
    /\ Len(before.items) = 2
    /\ Items(m_lru_list, node) = << <<call.key, call.value>>, before.items[1] >>
    /\ before.items[2][1] \notin DOMAIN m_cache_map

\* C4: put(K, V) of a resident key replaces its value by V and moves K to
\* the MRU head; nothing is evicted, also in a full cache; size, index, and
\* the values and relative order of the other entries are unchanged; when K
\* was the head already the order of keys is unchanged.
C4_PutResident ==
    [][ (call'.op = "put" /\ call'.key \in DOMAIN m_cache_map) =>
          LET K == call'.key
              V == call'.value
          IN  /\ Post = <<<<K, V>>>> \o Without(Pre, K)
              /\ Len(Post) = Len(Pre)
              /\ KeysOf(Post) = KeysOf(Pre)
              /\ m_cache_map' = m_cache_map
              /\ Pre[1][1] = K =>
                    [i \in DOMAIN Post |-> Post[i][1]] = [i \in DOMAIN Pre |-> Pre[i][1]]
      ]_vars

\* The tail of a full cache of two was put again with another value.
C4_Witness ==
    /\ call.op = "put"
    /\ m_max_size = 2
    /\ Len(before.items) = 2
    /\ before.items[2][1] = call.key
    /\ before.items[2][2] # call.value
    /\ Items(m_lru_list, node) = << <<call.key, call.value>>, before.items[1] >>

\* C5: get(K) of a resident key returns the stored value and moves K to the
\* MRU head, leaving the size, the index, every value and the relative order
\* of the others unchanged; get(K) of a key that is not resident returns
\* nullopt and leaves list, index and nodes as they were; a get(K) that
\* follows a hit of get(K) finds K at the head and changes nothing.
C5_Get ==
    [][ /\ (call'.op = "get" /\ call'.key \in DOMAIN m_cache_map) =>
              /\ call'.ret = ValueOf(Pre, call'.key)
              /\ Post = <<<<call'.key, call'.ret>>>> \o Without(Pre, call'.key)
              /\ Len(Post) = Len(Pre)
              /\ m_cache_map' = m_cache_map
              /\ node' = node
        /\ (call'.op = "get" /\ call'.key \notin DOMAIN m_cache_map) =>
              /\ call'.ret = nullopt
              /\ m_lru_list' = m_lru_list
              /\ m_cache_map' = m_cache_map
              /\ node' = node
        /\ (call.op = "get" /\ call.ret # nullopt /\ call'.op = "get" /\ call'.key = call.key) =>
              /\ Pre[1][1] = call.key
              /\ Post = Pre
              /\ call'.ret = call.ret
      ]_vars

\* A get hit the tail of a cache of two and promoted it.
C5_Witness ==
    /\ call.op = "get"
    /\ Len(before.items) = 2
    /\ before.items[2][1] = call.key
    /\ call.ret = before.items[2][2]
    /\ Items(m_lru_list, node) = << before.items[2], before.items[1] >>

\* C6: with a capacity of at least one, whenever a put makes a resident key
\* leave the cache, that key is the one resident key whose last touch (its
\* insertion, or its latest get hit or put) is the oldest; and a put of a
\* new key into a full cache does evict.
C6_EvictsOldestTouch ==
    [][ (call'.op = "put" /\ m_max_size >= 1) =>
          LET gone == (DOMAIN m_cache_map) \ (DOMAIN m_cache_map')
          IN  /\ gone # {} => gone = {Head(touched)}
              /\ (call'.key \notin DOMAIN m_cache_map /\ Len(m_lru_list) = m_max_size)
                    => gone # {}
      ]_vars

\* Two keys were inserted, the older one was promoted by a get hit, and a put
\* of a third key then evicted the other: the snapshot taken before the get
\* shows the survivor at the tail.
C6_Witness ==
    /\ call.op = "put"
    /\ call.key \notin before.index
    /\ m_max_size = 2
    /\ state # <<>>
    /\ Len(state[1].items) = 2
    /\ Len(before.items) = 2
    /\ before.items = << state[1].items[2], state[1].items[1] >>
    /\ Items(m_lru_list, node) = << <<call.key, call.value>>, before.items[1] >>

\* C7: with a capacity of at least one, get(K) returns the value of the most
\* recent put(K, v) when no remove(K) and no eviction of K came after it; a
\* get(K) right after put(K, V) returns V, whatever was put before.
C7_GetReturnsLastPut ==
    [][ m_max_size >= 1 =>
          /\ (call'.op = "get" /\ call'.key \in DOMAIN latest) =>
                call'.ret = latest[call'.key]
          /\ (call.op = "put" /\ call'.op = "get" /\ call'.key = call.key) =>
                call'.ret = call.value
      ]_vars

\* A get returned the last put of a key whose value had been replaced since
\* the snapshot was taken.
C7_Witness ==
    /\ call.op = "get"
    /\ call.key \in DOMAIN latest
    /\ call.ret = latest[call.key]
    /\ state # <<>>
    /\ call.key \in KeysOf(state[1].items)
    /\ ValueOf(state[1].items, call.key) # call.ret

\* C8: remove(K) of a resident key deletes exactly its node from the list
\* and its entry from the index, the others keeping values and order;
\* remove(K) of a key that is not resident changes nothing and raises no
\* fault; a get(K) right after remove(K) returns nullopt; a second remove(K)
\* right after remove(K) changes nothing.
C8_Remove ==
    [][ /\ (call'.op = "remove" /\ call'.key \in DOMAIN m_cache_map) =>
              /\ Range(m_lru_list') = Range(m_lru_list) \ {m_cache_map[call'.key]}
              /\ DOMAIN node' = Range(m_lru_list')
              /\ Post = Without(Pre, call'.key)
              /\ Len(Post) = Len(Pre) - 1
              /\ m_cache_map' = [k \in (DOMAIN m_cache_map) \ {call'.key} |-> m_cache_map[k]]
        /\ (call'.op = "remove" /\ call'.key \notin DOMAIN m_cache_map) =>
              /\ m_lru_list' = m_lru_list
              /\ m_cache_map' = m_cache_map
              /\ node' = node
              /\ fault' = "none"
        /\ (call.op = "remove" /\ call'.op = "get" /\ call'.key = call.key) =>
              call'.ret = nullopt
        /\ (call.op = "remove" /\ call'.op = "remove" /\ call'.key = call.key) =>
              /\ m_lru_list' = m_lru_list
              /\ m_cache_map' = m_cache_map
              /\ node' = node
      ]_vars

\* The head of a cache of two was removed and the other entry is left.
C8_Witness ==
    /\ call.op = "remove"
    /\ Len(before.items) = 2
    /\ before.items[1][1] = call.key
    /\ Items(m_lru_list, node) = << before.items[2] >>
    /\ call.key \notin DOMAIN m_cache_map

\* C9: a cache constructed with capacity zero never stores anything: the
\* cache is empty after any put, and every get returns nullopt.
C9_ZeroCapacityStoresNothing ==
    m_max_size = 0 =>
        /\ m_lru_list = <<>>
        /\ m_cache_map = <<>>
        /\ call.op = "get" => call.ret = nullopt

\* C10: get_state is a pure observation: it leaves list, index, nodes and
\* capacity as they were; the value it returns holds the entries from MRU to
\* LRU (the latest touched key first), their number, and the configured
\* capacity; and no later put, get or remove alters a value it returned.
C10_SnapshotPure ==
    [][ /\ call'.op = "get_state" =>
              /\ m_lru_list' = m_lru_list
              /\ m_cache_map' = m_cache_map
              /\ node' = node
              /\ m_max_size' = m_max_size
              /\ touched' = touched
              /\ Len(state') = 1
              /\ state'[1].items = Pre
              /\ [i \in DOMAIN state'[1].items |-> state'[1].items[i][1]] = Reverse(touched)
              /\ state'[1].current_size = Len(Pre)
              /\ state'[1].max_size = m_max_size
        /\ call'.op # "get_state" => state' = state
      ]_vars

\* A snapshot of a full cache of two outlived a put that replaced a value it
\* lists and evicted an entry it lists.
C10_Witness ==
    /\ state # <<>>
    /\ m_max_size = 2
    /\ state[1].current_size = 2
    /\ call.op = "put"
    /\ state[1].items[1][1] \notin DOMAIN m_cache_map
    /\ state[1].items[2][1] \in DOMAIN m_cache_map
    /\ node[m_cache_map[state[1].items[2][1]]].second # state[1].items[2][2]

\* C11: cache operations of concurrent workers take effect atomically.  A
\* worker is between the first and last statement of an operation only while
\* it holds m_mutex; whenever the mutex is free, index and list agree and
\* the size is within capacity; the cache each worker finds when it takes
\* the mutex has the same keys in list and index; and the snapshot get_state
\* returns is the cache as it was when get_state took the mutex, with
\* current_size the number of items, no key twice, and within capacity.
C11_OperationsAtomic ==
    /\ \A w \in CWorkers : cpc[w] \notin {"idle", "lock"} => cache_mutex = w
    /\ cache_mutex = "free" => (C2_IndexMatchesList /\ C1_SizeBounded)
    /\ \A w \in CWorkers :
          cpc[w] \notin {"idle", "lock"} =>
              /\ KeysOf(at_lock[w].items) = at_lock[w].index
              /\ Cardinality(at_lock[w].index) = Len(at_lock[w].items)
    /\ \A w \in CWorkers :
          (cpc[w] = "unlock" /\ cop[w].op = "get_state") =>
              /\ csnap[w].items = at_lock[w].items
              /\ csnap[w].current_size = Len(csnap[w].items)
              /\ Cardinality(KeysOf(csnap[w].items)) = Len(csnap[w].items)
              /\ csnap[w].current_size <= csnap[w].max_size

\* One worker is in the middle of a put that evicts, with the evicted key
\* gone from the index and still in the list, while another worker's
\* get_state waits for the mutex.
C11_Witness ==
    \E w, v \in CWorkers :
        /\ w # v
        /\ cpc[w] = "put_pop"
        /\ DOMAIN m_cache_map # Range(ListKeys(m_lru_list, node))
        /\ cpc[v] = "lock"
        /\ cop[v].op = "get_state"

\* ------------------------------------------------- properties of the pool
\* The sessions in workers' hands or idle after a step.
HeldAfter(x) == {w \in PWorkers : ppc'[w] # "idle" /\ conn'[w] = x}
IdleAfter(x) == {i \in DOMAIN m_pool' : m_pool'[i] = x}

\* C12 as stated: in every reachable state each established session is
\* either in the idle queue, once, or held by exactly one worker.
C12_EverySessionIdleOrHeld ==
    \A x \in established : Cardinality(Idle(x)) + Cardinality(Holders(x)) = 1

\* C12 as amended: in every reachable state each established session whose
\* handle was not invalidated and destroyed is either in the idle queue,
\* once, or held by exactly one worker, never both and never by two workers.
C12_SessionExclusive ==
    \A x \in established \ lost :
        Cardinality(Idle(x)) + Cardinality(Holders(x)) = 1

\* One session is in a worker's hands while another has left the pool with
\* an invalidated handle.
C12_Witness ==
    /\ lost # {}
    /\ \E w \in PWorkers : ppc[w] = "holding" /\ conn[w] \in established \ lost

\* C13: in every reachable state the idle sessions and the sessions in the
\* hands of workers together number the sessions established at
\* construction less those whose handle was invalidated and destroyed, and
\* every session in the queue or in a worker's hands is one established at
\* construction.
C13_SessionsConserved ==
    /\ Len(m_pool) + Cardinality({w \in PWorkers : Held(w) # {}})
          = Cardinality(established) - Cardinality(lost)
    /\ Range(m_pool) \subseteq established
    /\ \A w \in PWorkers : Held(w) \subseteq established

\* A session has left the pool with an invalidated handle and a worker is
\* in the destructor of a handle that returns another.
C13_Witness ==
    /\ lost # {}
    /\ \E w \in PWorkers : ppc[w] = "rc_lock"

\* C14: a handle that was not invalidated returns its session exactly once,
\* when it is destroyed, whichever way its holder leaves: while the handle
\* lives its session is not in the queue, and in the step that ends the
\* destruction the session, absent from the queue before, is in it once.
C14_ReleasedExactlyOnce ==
    [][\A w \in PWorkers :
          /\ (ppc'[w] # "idle" /\ conn'[w] # nullptr) => IdleAfter(conn'[w]) = {}
          /\ (ppc[w] # "idle" /\ ppc'[w] = "idle" /\ conn[w] # nullptr /\ m_valid[w]) =>
                /\ ppc[w] = "rc_lock"
                /\ path[w] \in {"normal", "error"}
                /\ Idle(conn[w]) = {}
                /\ Cardinality(IdleAfter(conn[w])) = 1
      ]_vars

\* A holder has left by the early error return and every session
\* established is back in the queue.
C14_Witness ==
    /\ \E w \in PWorkers : ppc[w] = "idle" /\ path[w] = "error"
    /\ established # {}
    /\ Len(m_pool) = Cardinality(established)

\* C15: getConnection never takes from an empty queue.  A worker reaches
\* the pop only holding the mutex and with the queue non-empty; a worker
\* waiting in getConnection does not get past the wait in a step that
\* starts with the queue empty; the pop takes the front session, under the
\* same hold of the mutex; and the session getConnection returns is one
\* established at construction.
C15_NeverPopsEmpty ==
    [][\A w \in PWorkers :
          /\ ppc'[w] = "gc_pop" => (m_pool' # <<>> /\ pool_mutex' = w)
          /\ (ppc[w] \in {"gc_wait", "gc_blocked", "gc_woken"} /\ m_pool = <<>>) =>
                ppc'[w] \in {"gc_wait", "gc_blocked", "gc_woken"}
          /\ (ppc[w] = "gc_pop" /\ ppc'[w] # "gc_pop") =>
                /\ pool_mutex = w /\ pool_mutex' = w
                /\ conn'[w] = Head(m_pool)
                /\ m_pool' = Tail(m_pool)
          /\ (ppc[w] = "gc_return" /\ ppc'[w] = "holding") =>
                (conn'[w] \in established /\ conn'[w] = conn[w])
      ]_vars

\* One worker is about to pop the only idle session while another, woken,
\* has yet to take the mutex and test the predicate again.
C15_Witness ==
    \E w, v \in PWorkers :
        /\ ppc[w] = "gc_pop"
        /\ ppc[v] = "gc_woken"
        /\ Len(m_pool) = 1

\* C17: each returnConnection appends the session to the queue and takes
\* exactly one worker out of the wait when some worker is blocked, none
\* otherwise; and after any step no two workers that have left the queue
\* with a session have the same one.
C17_ReleaseSignalsOne ==
    [][/\ \A w \in PWorkers :
             (ppc[w] = "rc_lock" /\ ppc'[w] = "idle") =>
                 /\ m_pool' = Append(m_pool, conn[w])
                 /\ m_cond' \subseteq m_cond
                 /\ Cardinality(m_cond \ m_cond') = IF m_cond = {} THEN 0 ELSE 1
                 /\ \A v \in PWorkers \ {w} :
                       ppc'[v] # ppc[v] => (v \in m_cond \ m_cond' /\ ppc'[v] = "gc_woken")
       /\ \A u, v \in PWorkers :
             (u # v /\ ppc'[u] # "idle" /\ ppc'[v] # "idle" /\ conn'[u] # nullptr) =>
                 conn'[u] # conn'[v]
      ]_vars

\* A session is idle, one waiter has been taken out of the wait and a
\* second is still blocked.
C17_Witness ==
    \E u, v \in PWorkers :
        /\ ppc[u] = "gc_woken"
        /\ ppc[v] = "gc_blocked"
        /\ v \in m_cond
        /\ Len(m_pool) = 1

\* C18: a handle on which invalidate() was called does not return its
\* session when destroyed: the destruction leaves the queue as it was, and
\* from then on the session is never in the queue nor in a worker's hands.
C18_InvalidatedNeverReturns ==
    [][/\ \A w \in PWorkers :
             (ppc[w] = "holding" /\ ppc'[w] # "holding" /\ ~m_valid[w] /\ conn[w] # nullptr) =>
                 /\ ppc'[w] = "idle"
                 /\ m_pool' = m_pool
                 /\ conn[w] \in lost'
       /\ lost \subseteq lost'
       /\ \A x \in lost' : IdleAfter(x) = {} /\ HeldAfter(x) = {}
      ]_vars

\* A session has left the pool with an invalidated handle, the queue is
\* empty and a worker is blocked in getConnection.
C18_Witness ==
    /\ lost # {}
    /\ m_pool = <<>>
    /\ \E w \in PWorkers : ppc[w] = "gc_blocked"

\* C19: the timed acquire returns nullptr only at the deadline with the
\* queue empty, and then takes nothing: the queue and what every other
\* worker has in hand are as before; with a session idle at the deadline it
\* does not give up; and when it takes a session it does as getConnection
\* does: the pop is reached only with the mutex held and the queue
\* non-empty, takes the front session, and the session returned is one
\* established at construction.
C19_TimedAcquire ==
    [][\A w \in PWorkers :
          /\ (ppc[w] \in {"tw_last", "tw_return"} /\ ppc'[w] = "holding") =>
                (conn'[w] = nullptr <=> ppc[w] = "tw_last")
          /\ (ppc[w] = "tw_last" /\ ppc'[w] = "holding") =>
                /\ m_pool = <<>>
                /\ m_pool' = m_pool
                /\ lost' = lost
                /\ \A v \in PWorkers \ {w} : conn'[v] = conn[v] /\ ppc'[v] = ppc[v]
          /\ (ppc[w] = "tw_last" /\ m_pool # <<>>) => ppc'[w] \in {"tw_last", "tw_pop"}
          /\ ppc'[w] = "tw_pop" => (m_pool' # <<>> /\ pool_mutex' = w)
          /\ (ppc[w] = "tw_pop" /\ ppc'[w] # "tw_pop") =>
                /\ pool_mutex = w /\ pool_mutex' = w
                /\ conn'[w] = Head(m_pool)
                /\ m_pool' = Tail(m_pool)
          /\ (ppc[w] = "tw_return" /\ ppc'[w] = "holding") =>
                (conn'[w] \in established /\ conn'[w] = conn[w])
      ]_vars

\* A timed acquire has returned nullptr while the handles of other workers
\* hold every session established.
C19_Witness ==
    \E w \in PWorkers :
        /\ ppc[w] = "holding"
        /\ conn[w] = nullptr
        /\ established # {}
        /\ \A x \in established : \E v \in PWorkers : ppc[v] = "holding" /\ conn[v] = x

\* C20: whenever is_connected() has been called, what it returned is true
\* if and only if at least one session was established at construction.
C20_IsConnectedMeansEstablished ==
    connected # "-" => (connected = "true" <=> established # {})

\* C16: under fair scheduling, with every holder releasing in the end and
\* no handle invalidated, every worker blocked in getConnection obtains a
\* session in the end.
C16_BlockedEventuallyAcquires ==
    \A w \in PWorkers : (ppc[w] = "gc_blocked") ~> (ppc[w] = "holding")

\* ----------------------------------------------- properties of the server
\* Worker w takes a step of the handler it is in.
Steps(w) == hpc'[w] # hpc[w] /\ InProgress(w)

\* Worker w's step is the cache update of its handler.
Updates(w) == hpc[w] = "update" /\ hpc'[w] = "leave"

\* The cache is exactly as before: entries, order and index.
CacheSame == Pre = Post /\ m_cache_map' = m_cache_map /\ node' = node

\* C21: /create is write-through. Its upsert comes first and leaves the cache
\* alone; a failed upsert is answered 500 and no later step of the handler
\* touches the cache; after a committed upsert the handler puts (K, V) at
\* the MRU head, and only that step sets 200.
C21_WriteThrough ==
    [][\A w \in HWorkers :
        (Steps(w) /\ req[w].op = "create" /\ res[w].status # 400) =>
            LET K == req[w].key
                V == req[w].value
            IN  /\ hpc[w] = "call" =>
                    /\ CacheSame
                    /\ \/ /\ hpc'[w] = "update"
                          /\ kv_pairs' = [kv_pairs EXCEPT ![K] = V]
                          /\ res'[w].status = 0
                       \/ /\ hpc'[w] = "leave"
                          /\ kv_pairs' = kv_pairs
                          /\ res'[w].status = 500
                /\ Updates(w) =>
                    /\ <<K, V>> \in committed
                    /\ Post # <<>> /\ Post[1] = <<K, V>>
                    /\ res[w].status = 0 /\ res'[w].status = 200
                /\ hpc[w] = "leave" =>
                    /\ CacheSame /\ kv_pairs' = kv_pairs
                    /\ res'[w] = res[w] /\ res[w].status \in {200, 500}
                    /\ hpc'[w] = "done"
                /\ hpc[w] = "acquire" => CacheSame /\ kv_pairs' = kv_pairs
    ]_vars

\* A /create of a resident key was answered 500 and the key is still cached.
C21_Witness ==
    \E w \in HWorkers :
        /\ hpc[w] = "done" /\ req[w].op = "create" /\ res[w].status = 500
        /\ req[w].key \in DOMAIN m_cache_map
        /\ Cached(req[w].key) # req[w].value

\* C22: /delete is delete-through. Its backend delete comes first and leaves
\* the cache alone; a failed delete is answered 500 and no later step of the
\* handler touches the cache; after a committed delete the handler removes
\* K from the cache, the other entries keeping their order, and only that
\* step sets 200.
C22_DeleteThrough ==
    [][\A w \in HWorkers :
        (Steps(w) /\ req[w].op = "delete" /\ res[w].status # 400) =>
            LET K == req[w].key
            IN  /\ hpc[w] = "call" =>
                    /\ CacheSame
                    /\ \/ /\ hpc'[w] = "update"
                          /\ kv_pairs' = [kv_pairs EXCEPT ![K] = absent]
                          /\ res'[w].status = 0
                       \/ /\ hpc'[w] = "leave"
                          /\ kv_pairs' = kv_pairs
                          /\ res'[w].status = 500
                /\ Updates(w) =>
                    /\ Post = Without(Pre, K)
                    /\ K \notin DOMAIN m_cache_map'
                    /\ res[w].status = 0 /\ res'[w].status = 200
                /\ hpc[w] = "leave" =>
                    /\ CacheSame /\ kv_pairs' = kv_pairs
                    /\ res'[w] = res[w] /\ res[w].status \in {200, 500}
                    /\ hpc'[w] = "done"
                /\ hpc[w] = "acquire" => CacheSame /\ kv_pairs' = kv_pairs
    ]_vars

\* A /delete of a resident key was answered 500 and the key is still cached.
C22_Witness ==
    \E w \in HWorkers :
        /\ hpc[w] = "done" /\ req[w].op = "delete" /\ res[w].status = 500
        /\ req[w].key \in DOMAIN m_cache_map

\* C23: /read is read-through. A hit is answered 200 with the cached value
\* in a step that touches neither the pool nor kv_pairs, and that step can
\* be taken whatever the pool holds; a miss borrows a session and queries
\* kv_pairs; a value is put in the cache before 200, and without a value
\* the answer is 404 and no step of the handler touches the cache.
C23_ReadThrough ==
    /\ [](\A w \in HWorkers : hpc[w] = "probe" => ENABLED read_cache(w))
    /\ [][\A w \in HWorkers :
            (Steps(w) /\ req[w].op = "read" /\ res[w].status # 400) =>
                LET K == req[w].key
                IN  /\ hpc[w] = "probe" =>
                        /\ UNCHANGED <<pvars, kv_pairs>>
                        /\ IF K \in KeysOf(Pre)
                           THEN /\ res'[w] = [status |-> 200, body |-> ValueOf(Pre, K)]
                                /\ hpc'[w] = "done"
                           ELSE /\ hpc'[w] = "acquire"
                                /\ CacheSame
                    /\ hpc[w] = "call" =>
                        /\ CacheSame /\ kv_pairs' = kv_pairs
                        /\ conn[w] # nullptr
                        /\ \/ /\ hpc'[w] = "update"
                              /\ db_val'[w] = kv_pairs[K] /\ kv_pairs[K] # absent
                              /\ res'[w].status = 0
                           \/ /\ hpc'[w] = "leave"
                              /\ res'[w].status = 404
                    /\ Updates(w) =>
                        /\ Post # <<>> /\ Post[1] = <<K, db_val[w]>>
                        /\ res[w].status = 0
                        /\ res'[w] = [status |-> 200, body |-> db_val[w]]
                    /\ hpc[w] = "leave" =>
                        /\ CacheSame /\ kv_pairs' = kv_pairs
                        /\ res'[w] = res[w] /\ res[w].status \in {200, 404}
                    /\ hpc[w] = "acquire" => CacheSame /\ kv_pairs' = kv_pairs
       ]_vars

\* A /read was answered from the cache while the pool had no idle session.
C23_Witness ==
    \E w \in HWorkers :
        /\ hpc[w] = "done" /\ req[w].op = "read" /\ res[w].status = 200
        /\ db_val[w] = nullopt
        /\ m_pool = <<>> /\ established # {}

\* No handler is in progress.
Quiescent == \A w \in HWorkers : ~InProgress(w)

\* C24: no false positives. Every pair resident in the cache is a pair that
\* kv_pairs held at the start or that an upsert committed earlier.
C24_NoFalsePositives ==
    \A k \in DOMAIN m_cache_map : <<k, Cached(k)>> \in committed

\* A write of another value for a cached key has failed and a key is cached
\* with a value that kv_pairs no longer holds.
C24_Witness ==
    /\ \E w \in HWorkers :
          /\ hpc[w] = "done" /\ req[w].op = "create" /\ res[w].status = 500
          /\ req[w].key \in DOMAIN m_cache_map
          /\ <<req[w].key, req[w].value>> \notin committed
    /\ \E k \in DOMAIN m_cache_map : kv_pairs[k] # Cached(k)

\* C25: a /read of K that begins after a successful /delete of K has
\* completed, with no /create of K since the delete began, answers 404.
C25_ReadAfterDelete ==
    \A w \in HWorkers :
        (hpc[w] = "done" /\ req[w].op = "read" /\ after_del[w]) => res[w].status = 404

\* C26: a /read of K that begins after a successful /create of (K, V) has
\* completed, with no other /create or /delete of K from the start of that
\* create to the end of the read, answers 200 with V.
C26_ReadAfterCreate ==
    \A w \in HWorkers :
        (hpc[w] = "done" /\ req[w].op = "read" /\ after_put[w] # nullopt) =>
            res[w] = [status |-> 200, body |-> after_put[w]]

\* C27: when no handler is in progress the idle queue holds every session
\* the constructor established, each once.
C27_QuiescentPoolFull ==
    (server = "listening" /\ Quiescent) =>
        /\ Range(m_pool) = established
        /\ Len(m_pool) = Cardinality(established)
        /\ \A w \in HWorkers : conn[w] = nullptr

\* No handler is in progress after requests that were answered 500 and 404.
C27_Witness ==
    /\ Quiescent
    /\ \E w \in HWorkers : hpc[w] = "done" /\ res[w].status = 500
    /\ \E w \in HWorkers : hpc[w] = "done" /\ res[w].status = 404
    /\ Range(m_pool) = established

\* C28: when the constructor established no session, main never listens:
\* no request is taken up and no worker is in a handler or in the pool.
C28_NoSessionNoServer ==
    established = {} =>
        /\ server # "listening"
        /\ served = 0
        /\ \A w \in HWorkers : hpc[w] = "idle" /\ ppc[w] = "idle"

\* Every PQconnectdb failed and main has returned 1.
C28_Witness == established = {} /\ server = "exited" /\ connected = "false"

\* C29 as claimed: a worker at its handler's cache update holds no session.
C29_ReturnedBeforeCacheUpdate ==
    \A w \in HWorkers : hpc[w] = "update" => conn[w] = nullptr

\* C29, amended: in every handler that borrows a session, the session is
\* returned when the handler's scope ends, after the backend call, the
\* cache update and the setting of the status: during cache.put /
\* cache.remove the worker still holds its session, and the step that ends
\* the handler puts it at the back of the idle queue.
C29_ReturnedAtScopeEnd ==
    [][\A w \in HWorkers :
        /\ Updates(w) =>
              /\ conn[w] # nullptr /\ m_valid[w]
              /\ conn'[w] = conn[w]
              /\ conn[w] \notin Range(m_pool')
        /\ (hpc[w] = "leave" /\ hpc'[w] = "done") =>
              /\ conn[w] # nullptr
              /\ res[w].status \in {200, 404, 500}
              /\ m_pool' = Append(m_pool, conn[w])
              /\ conn'[w] = nullptr
    ]_vars

\* A handler has updated the cache and set 200 with its session in hand.
C29_Witness ==
    \E w \in HWorkers :
        /\ hpc[w] = "leave" /\ res[w].status = 200
        /\ conn[w] # nullptr /\ conn[w] \notin Range(m_pool)
        /\ req[w].key \in DOMAIN m_cache_map

\* C30: two concurrent /create requests of one key can commit in one order
\* and update the cache in the other. Whenever a /create of (K, v1) updates
\* the cache after a /create of (K, v2) that committed later has updated it,
\* the cache holds v1 for K while kv_pairs holds v2, and this lasts until
\* the next write of K.
C30_CreatesCross ==
    \A k \in HKeys :
        crossed[k] # nullopt =>
            /\ Cached(k) = crossed[k][1]
            /\ kv_pairs[k] = crossed[k][2]
            /\ Cached(k) # kv_pairs[k]

\* No handler is in progress and the cache holds v1 where kv_pairs holds
\* v2, left by two /create requests that crossed.
C30_Witness ==
    /\ Quiescent
    /\ \E k \in HKeys :
          /\ crossed[k] # nullopt
          /\ Cached(k) \in Values /\ kv_pairs[k] \in Values
          /\ Cached(k) # kv_pairs[k]
          /\ \A w \in HWorkers : hpc[w] = "done" /\ req[w] = [op |-> "create", key |-> k,
                  value |-> IF w = "w1" THEN Cached(k) ELSE kv_pairs[k]]

\* ---------------------------------------- properties of repair and shrinking
\* The workers that have popped a session and are probing or resetting it.
Probing == {w \in PWorkers : ppc[w] \in {"gc_probe", "tw_probe"}}

\* The workers between the repair and the return of getConnection.
Returning == {w \in PWorkers : ppc[w] \in {"gc_return", "tw_return"}}

\* C33: repair on acquire. The session popped from the queue is probed once:
\* a healthy one is left as it is, an unhealthy one gets one reset that may
\* or may not bring it back; either way acquire then returns that same
\* session to its caller, and the session is neither pushed back on the
\* queue nor exchanged for another.
C33_RepairOnAcquire ==
    [][\A w \in PWorkers :
        /\ (w \in Probing /\ ppc'[w] # ppc[w]) =>
              /\ conn[w] # nullptr
              /\ conn'[w] = conn[w]
              /\ m_pool' = m_pool
              /\ ppc'[w] = IF ppc[w] = "gc_probe" THEN "gc_return" ELSE "tw_return"
              /\ status[conn[w]] = "OK" => status' = status
              /\ \A x \in Sessions \ {conn[w]} : status'[x] = status[x]
        /\ (w \notin Probing /\ ppc'[w] \in {"gc_probe", "tw_probe"}) =>
              /\ ppc[w] = (IF ppc'[w] = "gc_probe" THEN "gc_pop" ELSE "tw_pop")
              /\ conn'[w] = Head(m_pool)
        /\ (w \in Returning /\ ppc'[w] # ppc[w]) =>
              /\ ppc'[w] = "holding"
              /\ conn'[w] = conn[w] /\ conn[w] # nullptr
              /\ m_pool' = m_pool
              /\ conn[w] \notin Range(m_pool)
    ]_vars

\* A timed acquire is about to return a session whose reset failed, and
\* the session is not in the queue.
C33_Witness ==
    \E w \in PWorkers :
        /\ ppc[w] = "tw_return"
        /\ status[conn[w]] = "BAD"
        /\ conn[w] \notin Range(m_pool)

\* C35: the probe and the reset are done with the pool's mutex held. While
\* a worker repairs the session it popped, the mutex is its own, the queue
\* does not change, and no other worker takes a session, returns one, or
\* comes back from its wait with the mutex.
C35_RepairUnderMutex ==
    /\ [](\A w \in Probing : pool_mutex = w)
    /\ [][\A w \in Probing : \A v \in PWorkers \ {w} :
            /\ m_pool' = m_pool
            /\ conn'[v] \in {conn[v], nullptr}
            /\ ppc[v] = "rc_lock" => ppc'[v] = "rc_lock"
            /\ ppc[v] \in {"gc_lock", "tw_lock", "gc_woken", "tw_woken", "tw_expired"}
                  => ppc'[v] \in {ppc[v], "tw_expired"}
            /\ ppc[v] \in {"gc_blocked", "tw_blocked"}
                  => ppc'[v] \in {ppc[v], Woken(v), "tw_expired"}
       ]_vars

\* A worker is resetting an unhealthy session while another stands at
\* returnConnection with its own and a third at getConnection's lock.
C35_Witness ==
    \E w \in Probing, v, u \in PWorkers :
        /\ status[conn[w]] = "BAD"
        /\ ppc[v] = "rc_lock"
        /\ ppc[u] = "gc_lock"

\* C36: invalidation shrinks the pool for good. Once every established
\* session has been lost with an invalidated handle, it stays so, the idle
\* queue is empty, no worker is past the wait of getConnection or holds a
\* session, and every is_connected() answers false.
C36_ShrunkForGood ==
    /\ [](lost = established =>
            /\ m_pool = <<>>
            /\ \A w \in PWorkers :
                  /\ ppc[w] \in {"idle", "gc_lock", "gc_wait", "gc_blocked", "gc_woken"}
                  /\ Held(w) = {})
    /\ [][lost = established =>
            /\ lost' = lost /\ established' = established
            /\ connected' \in {connected, "false"}]_vars

\* Both sessions were established and lost, is_connected() has answered
\* false, and a worker is blocked in getConnection.
C36_Witness ==
    /\ established = Sessions
    /\ lost = established
    /\ connected = "false"
    /\ \E w \in PWorkers : ppc[w] = "gc_blocked"

\* ------------------------------------------- properties of the observed requests
\* C32: every /read that answers 200 returns a value that the cache or the
\* backend held for its key at some moment between the start and the end of
\* the request, whatever /create and /delete requests run beside it.
C32_ReadReturnsHeldValue ==
    \A w \in HWorkers :
        req[w].op = "read" /\ res[w].status = 200 => res[w].body \in seen[w]

\* A /read answered 200 from the backend with a value which a /create beside
\* it has since replaced in the backend and in the cache.
C32_Witness ==
    \E w \in HWorkers :
        /\ hpc[w] = "done" /\ req[w].op = "read" /\ res[w].status = 200
        /\ ~alone[w]
        /\ res[w].body \notin Held_for(req[w].key)
        /\ Cardinality(seen[w]) = 2

\* The request of worker w ends in this step with the answer 200, and its
\* key had diverged before it came in.
EndsLate(w, op) ==
    /\ hpc[w] = "leave" /\ hpc'[w] = "done"
    /\ req[w].op = op /\ res[w].status = 200
    /\ late[w]

\* This step is a cache.put that finds the cache full and drops key, the
\* entry at the back of the list.
Evicts(key) ==
    /\ m_lru_list # <<>>
    /\ Cardinality(DOMAIN m_cache_map) >= m_max_size
    /\ node[back(m_lru_list)].first = key
    /\ \E w \in HWorkers :
          /\ hpc[w] = "update" /\ hpc'[w] = "leave"
          /\ req[w].op \in {"create", "read"}
          /\ req[w].key \notin DOMAIN m_cache_map

\* C31 as stated: once the cache has held a value for K that differs from
\* the backend's, a later successful /create of K with no other request on K
\* in progress ends with cache and backend holding the same value for K, and
\* an eviction or successful /delete of K ends with K absent from the cache.
C31_Convergence ==
    [][/\ \A w \in HWorkers :
             /\ EndsLate(w, "create") /\ alone[w]
                   => Cached(req[w].key)' = kv_pairs'[req[w].key]
             /\ EndsLate(w, "delete") => req[w].key \notin DOMAIN m_cache_map'
        /\ \A k \in diverged : Evicts(k) => k \notin DOMAIN m_cache_map']_vars

\* C31, amended: once the cache has held a value for K that differs from the
\* backend's, a later successful /create of K with no other request on K in
\* progress ends with the cache holding the backend's value for K, or no
\* value if K was evicted meanwhile; a later successful /delete of K with no
\* other request on K in progress ends with K absent from the cache; and an
\* eviction of K ends with K absent from the cache.
C31_ConvergenceAlone ==
    [][/\ \A w \in HWorkers :
             /\ EndsLate(w, "create") /\ alone[w] => ~Stale(req[w].key)'
             /\ EndsLate(w, "delete") /\ alone[w]
                   => req[w].key \notin DOMAIN m_cache_map'
        /\ \A k \in diverged : Evicts(k) => k \notin DOMAIN m_cache_map']_vars

\* The cache has held a stale value for a key, and a /create of that key
\* that came in later and ran alone has ended: cache and backend now hold
\* the value it wrote, and no request is in progress.
C31_Witness ==
    \E w \in HWorkers :
        /\ hpc[w] = "done" /\ req[w].op = "create" /\ res[w].status = 200
        /\ late[w] /\ alone[w]
        /\ served = MaxReq
        /\ \A v \in HWorkers : ~InProgress(v)
        /\ Cached(req[w].key) = req[w].value
        /\ kv_pairs[req[w].key] = req[w].value
        /\ <<req[w].key, req[w].value>> \notin {<<"a", "1">>}

\* ------------------------------------------ properties of the combined system
\* Worker w is inside getConnection and has no session yet: it waits for
\* the pool mutex or for a session.
Waiting(w) == ppc[w] \in {"gc_lock", "gc_wait", "gc_blocked", "gc_woken"}

\* C34: no worker holds the cache mutex and the pool mutex at the same time,
\* and no worker waits for a session while it holds the cache mutex or a
\* session; and the combined system of handlers, cache and pool, started
\* with at least one established session and with no handle invalidated, has
\* no deadlock: while a request is in progress, some worker with a request
\* in progress can take a step.
C34_NoDeadlock ==
    /\ \A w \in HWorkers :
          /\ ~(cache_mutex = cache_thread(w) /\ pool_mutex = w)
          /\ Waiting(w) => cache_mutex # cache_thread(w) /\ Held(w) = {}
    /\ (\E w \in HWorkers : InProgress(w)) => \E w \in HWorkers : ENABLED Runs(w)

\* One worker is blocked in wait with the queue empty while the other holds
\* the session and the cache mutex, inside the cache.put of its handler.
C34_Witness ==
    \E w \in HWorkers, v \in HWorkers :
        /\ ppc[w] = "gc_blocked" /\ m_pool = <<>>
        /\ ppc[v] = "holding" /\ cache_mutex = cache_thread(v)
        /\ cpc[cache_thread(v)] = "put_erase"
====
